---------------------------- MODULE Spec2Model ----------------------------
(***************************************************************************)
(* A model of formatparse's pattern compiler and matcher                   *)
(* (src/src/parser.rs, src/src/types.rs).                                  *)
(*                                                                         *)
(* Strings are sequences of one-character strings.  Option<T> is modelled  *)
(* as a sequence of length 0 (None) or 1 (Some(v)).  Offsets into an input *)
(* are 0-based as in the source: the character at offset k is s[k + 1].    *)
(***************************************************************************)
EXTENDS Integers, Sequences, FiniteSets, TLC

VARIABLES
    ctor,       \* the arguments the constructor was called with
    compiled,   \* the FormatParser object, or the error its constructor raised
    call        \* the parse / search call in progress and what it returns

vars == <<ctor, compiled, call>>

-----------------------------------------------------------------------------
(* Bounds of the model *)

\* fields and literal runs a modelled pattern is assembled from
MaxPieces == 2

\* length of a modelled input string
MaxLen == 3

\* fields of a pattern in the specification of names (SpecNames)
MaxNames == 3

\* width of a zero-padded integer field (SpecInt)
MaxWidth == 2

\* largest regex_group_count a converter declares (SpecCustom)
MaxCount == 3

-----------------------------------------------------------------------------
(* Characters *)

None == <<>>
Some(v) == <<v>>

LowerSeq == <<"a","b","c","d","e","f","g","h","i","j","k","l","m",
              "n","o","p","q","r","s","t","u","v","w","x","y","z">>
UpperSeq == <<"A","B","C","D","E","F","G","H","I","J","K","L","M",
              "N","O","P","Q","R","S","T","U","V","W","X","Y","Z">>
DigitSeq == <<"0","1","2","3","4","5","6","7","8","9">>

\* str::chars: the characters of a string literal, in order
Str(text) == [i \in 1..Len(text) |-> SubSeq(text, i, i)]

Range(q) == {q[k] : k \in 1..Len(q)}
Lower == Range(LowerSeq)
Upper == Range(UpperSeq)
Digits == Range(DigitSeq)
Whitespace == {" "}

is_whitespace(c) == c \in Whitespace
is_ascii_digit(c) == c \in Digits
is_alphabetic(c) == c \in Lower \cup Upper
is_alphanumeric(c) == is_alphabetic(c) \/ is_ascii_digit(c)

IndexIn(q, c) == CHOOSE k \in 1..Len(q) : q[k] = c
DigitVal(c) == IndexIn(DigitSeq, c) - 1

\* simple case folding, as (?i) applies it to one character
SwapCase(c) ==
    IF c \in Lower THEN UpperSeq[IndexIn(LowerSeq, c)]
    ELSE IF c \in Upper THEN LowerSeq[IndexIn(UpperSeq, c)]
    ELSE c

to_lowercase_char(c) == IF c \in Upper THEN SwapCase(c) ELSE c

RECURSIVE SkipWhile(_, _, _)
\* first position >= i of q whose character is not in set S (Len(q)+1 if none)
SkipWhile(q, i, S) ==
    IF i <= Len(q) /\ q[i] \in S THEN SkipWhile(q, i + 1, S) ELSE i

RECURSIVE SkipBack(_, _, _)
\* last position <= i of q whose character is not in S (0 if none)
SkipBack(q, i, S) ==
    IF i >= 1 /\ q[i] \in S THEN SkipBack(q, i - 1, S) ELSE i

trim_end(q) == SubSeq(q, 1, SkipBack(q, Len(q), Whitespace))
trim_start(q) == SubSeq(q, SkipWhile(q, 1, Whitespace), Len(q))
trim(q) == trim_end(trim_start(q))
trim_start_matches(q, c) == SubSeq(q, SkipWhile(q, 1, {c}), Len(q))

starts_with(q, pre) == Len(q) >= Len(pre) /\ SubSeq(q, 1, Len(pre)) = pre

RECURSIVE Filter(_, _)
Filter(q, S) ==
    IF q = <<>> THEN <<>>
    ELSE IF Head(q) \in S THEN <<Head(q)>> \o Filter(Tail(q), S)
    ELSE Filter(Tail(q), S)

RECURSIVE ParseUsize(_, _)
\* str::parse::<usize> on a string of ASCII digits (acc is the value so far)
ParseUsize(q, acc) ==
    IF q = <<>> THEN acc ELSE ParseUsize(Tail(q), 10 * acc + DigitVal(Head(q)))

-----------------------------------------------------------------------------
(* Field specifications: types.rs *)

FieldType(tag, cname) == [tag |-> tag, cname |-> cname]
Builtin(tag) == FieldType(tag, <<>>)
Custom(name) == FieldType("Custom", name)

\* FieldSpec::default
FieldSpecDefault ==
    [ name |-> None, field_type |-> Builtin("String"), width |-> None,
      precision |-> None, alignment |-> None, sign |-> None, fill |-> None,
      zero_pad |-> FALSE, strftime_format |-> None, original_type_char |-> None ]

AlignChars == {"<", ">", "^", "="}
SignChars == {"+", "-", " "}

\* the type tag parse_format_spec gives a type name made of letters
TypeOfName(type_name) ==
    IF type_name = <<>> THEN Builtin("String")
    ELSE IF type_name = <<"t","i">> THEN Builtin("DateTimeISO")
    ELSE IF type_name = <<"t","e">> THEN Builtin("DateTimeRFC2822")
    ELSE IF type_name = <<"t","g">> THEN Builtin("DateTimeGlobal")
    ELSE IF type_name = <<"t","a">> THEN Builtin("DateTimeUS")
    ELSE IF type_name = <<"t","c">> THEN Builtin("DateTimeCtime")
    ELSE IF type_name = <<"t","h">> THEN Builtin("DateTimeHTTP")
    ELSE IF type_name = <<"t","t">> THEN Builtin("DateTimeTime")
    ELSE IF type_name = <<"t","s">> THEN Builtin("DateTimeSystem")
    ELSE IF Len(type_name) > 1 THEN Custom(type_name)
    ELSE LET c == type_name[1] IN
         IF c = "s" THEN Builtin("String")
         ELSE IF c \in {"d", "i"} THEN Builtin("Integer")
         ELSE IF c \in {"b", "o", "x", "X"} THEN Builtin("Integer")
         ELSE IF c = "n" THEN Builtin("NumberWithThousands")
         ELSE IF c \in {"f", "F"} THEN Builtin("Float")
         ELSE IF c \in {"e", "E"} THEN Builtin("Scientific")
         ELSE IF c \in {"g", "G"} THEN Builtin("GeneralNumber")
         ELSE IF c = "l" THEN Builtin("Letters")
         ELSE IF c = "w" THEN Builtin("Word")
         ELSE IF c = "W" THEN Builtin("NonLetters")
         ELSE IF c = "S" THEN Builtin("NonWhitespace")
         ELSE IF c = "D" THEN Builtin("NonDigits")
         ELSE Custom(<<c>>)

\* FormatParser::parse_format_spec: [[fill]align][sign][#][0][width][,][.precision][type]
\* Each step takes the spec built so far and the position reached in fs.
parse_format_spec(fs) ==
    LET n == Len(fs)
        at(p, S) == p <= n /\ fs[p] \in S
        number(p, q) == IF q > p THEN Some(ParseUsize(SubSeq(fs, p, q - 1), 0)) ELSE None
        WithType(spec, type_str, ty) ==
            [spec EXCEPT !.field_type = ty,
                         !.strftime_format = IF ty.tag = "DateTimeStrftime"
                                               THEN Some(type_str) ELSE None]
        Type(spec, type_str) ==
            WithType(spec, type_str,
                IF type_str = <<"%">> THEN Builtin("Percentage")
                ELSE IF starts_with(type_str, <<"%">>) THEN Builtin("DateTimeStrftime")
                ELSE TypeOfName(Filter(type_str, Lower \cup Upper)))
        Digits2(spec, p, q) == Type([spec EXCEPT !.precision = number(p, q)], SubSeq(fs, q, n))
        Precision(spec, p) ==
            IF at(p, {"."}) THEN Digits2(spec, p + 1, SkipWhile(fs, p + 1, Digits))
            ELSE Type(spec, SubSeq(fs, p, n))
        Comma(spec, p) == Precision(spec, IF at(p, {","}) THEN p + 1 ELSE p)
        Digits1(spec, p, q) == Comma([spec EXCEPT !.width = number(p, q)], q)
        Width(spec, p) == Digits1(spec, p, SkipWhile(fs, p, Digits))
        Zero(spec, p) ==
            Width([spec EXCEPT !.zero_pad = at(p, {"0"})], IF at(p, {"0"}) THEN p + 1 ELSE p)
        Hash(spec, p) == Zero(spec, IF at(p, {"#"}) THEN p + 1 ELSE p)
        Sign(spec, p) ==
            Hash([spec EXCEPT !.sign = IF at(p, SignChars) THEN Some(fs[p]) ELSE None],
                 IF at(p, SignChars) THEN p + 1 ELSE p)
    IN  IF at(1, AlignChars)
          THEN Sign([FieldSpecDefault EXCEPT !.alignment = Some(fs[1])], 2)
        ELSE IF at(2, AlignChars)
          THEN Sign([FieldSpecDefault EXCEPT !.fill = Some(fs[1]),
                                             !.alignment = Some(fs[2])], 3)
        ELSE Sign(FieldSpecDefault, 1)

-----------------------------------------------------------------------------
(* Regular expressions: the regex crate, as far as the emitted fragments   *)
(* use it.  A regex is a tree of records; Match lists the ways a node can  *)
(* match at an offset in priority order, so its first element is the       *)
(* leftmost-first (backtracking) match the crate reports.                  *)

Cls(pos, neg) == [k |-> "cls", pos |-> pos, neg |-> neg]
Lit(c) == Cls({c}, FALSE)
Rep(sub, min, max, greedy) ==
    [k |-> "rep", sub |-> sub, min |-> min, max |-> max, greedy |-> greedy]
Cat(parts) == [k |-> "seq", parts |-> parts]
Alt(parts) == [k |-> "alt", parts |-> parts]
Grp(name, sub) == [k |-> "grp", name |-> name, idx |-> 0, sub |-> sub]
Flag(f) == [k |-> "flag", f |-> f]
AssertStart == [k |-> "start"]
AssertEnd == [k |-> "end"]
\* text the regex parser rejects
Bad == [k |-> "bad"]

Unbounded == 0 - 1
Plus(sub) == Rep(sub, 1, Unbounded, TRUE)
Star(sub) == Rep(sub, 0, Unbounded, TRUE)
Opt(sub) == Rep(sub, 0, 1, TRUE)
LazyPlus(sub) == Rep(sub, 1, Unbounded, FALSE)
LazyStar(sub) == Rep(sub, 0, Unbounded, FALSE)
Exactly(sub, n) == Rep(sub, n, n, TRUE)
AtLeast(sub, n) == Rep(sub, n, Unbounded, TRUE)

\* . under (?s)
AnyChar == Cls({}, TRUE)
WsCls == Cls(Whitespace, FALSE)
NonWsCls == Cls(Whitespace, TRUE)
DigitCls == Cls(Digits, FALSE)
WordCls == Cls(Lower \cup Upper \cup Digits \cup {"_"}, FALSE)
LetterCls == Cls(Lower \cup Upper, FALSE)
HexCls == Cls(Digits \cup {"a","b","c","d","e","f","A","B","C","D","E","F"}, FALSE)
OctCls == Cls({"0","1","2","3","4","5","6","7"}, FALSE)
BinCls == Cls({"0","1"}, FALSE)

\* regex::escape(q): every character matches itself
escape(q) == Cat([j \in 1..Len(q) |-> Lit(q[j])])

ClsMatch(node, c, ci) ==
    LET in == c \in node.pos \/ (ci /\ SwapCase(c) \in node.pos)
    IN  in # node.neg

RECURSIVE GroupNamesOf(_), GroupNamesOfList(_, _)
\* the capture groups of a node in the order of their opening parentheses:
\* None for an unnamed group, Some(name) for (?P<name>...)
GroupNamesOf(node) ==
    IF node.k = "rep" THEN GroupNamesOf(node.sub)
    ELSE IF node.k \in {"seq", "alt"} THEN GroupNamesOfList(node.parts, 1)
    ELSE IF node.k = "grp" THEN <<node.name>> \o GroupNamesOf(node.sub)
    ELSE <<>>
GroupNamesOfList(parts, j) ==
    IF j > Len(parts) THEN <<>>
    ELSE GroupNamesOf(parts[j]) \o GroupNamesOfList(parts, j + 1)

RECURSIVE HasBad(_)
HasBad(node) ==
    IF node.k = "bad" THEN TRUE
    ELSE IF node.k \in {"rep", "grp"} THEN HasBad(node.sub)
    ELSE IF node.k \in {"seq", "alt"}
      THEN \E j \in 1..Len(node.parts) : HasBad(node.parts[j])
    ELSE FALSE

RECURSIVE Number(_, _), NumberList(_, _, _, _)
\* give every capture group its index: groups are numbered from `next` on
Number(node, next) ==
    IF node.k = "rep" THEN
        LET r == Number(node.sub, next)
        IN  [node |-> [node EXCEPT !.sub = r.node], next |-> r.next]
    ELSE IF node.k \in {"seq", "alt"} THEN
        LET r == NumberList(node.parts, 1, next, <<>>)
        IN  [node |-> [node EXCEPT !.parts = r.node], next |-> r.next]
    ELSE IF node.k = "grp" THEN
        LET r == Number(node.sub, next + 1)
        IN  [node |-> [node EXCEPT !.idx = next, !.sub = r.node], next |-> r.next]
    ELSE [node |-> node, next |-> next]
NumberList(parts, j, next, acc) ==
    IF j > Len(parts) THEN [node |-> acc, next |-> next]
    ELSE LET r == Number(parts[j], next)
         IN  NumberList(parts, j + 1, r.next, Append(acc, r.node))

\* a capture group name the regex parser accepts
ValidGroupName(name) ==
    /\ name # <<>>
    /\ (name[1] = "_" \/ is_alphabetic(name[1]))
    /\ \A j \in 2..Len(name) :
          is_alphanumeric(name[j]) \/ name[j] \in {"_", ".", "[", "]"}

RECURSIVE Match(_, _, _, _, _), MatchSeq(_, _, _, _, _, _),
          MatchThen(_, _, _, _, _, _), MatchAlt(_, _, _, _, _, _),
          MatchRep(_, _, _, _, _, _), MatchAgain(_, _, _, _, _, _, _)
\* every way `node` matches s from offset i on with captures caps so far,
\* as [pos, caps] records in priority order
Match(node, s, i, caps, ci) ==
    IF node.k = "cls" THEN
        IF i < Len(s) /\ ClsMatch(node, s[i + 1], ci)
          THEN <<[pos |-> i + 1, caps |-> caps]>> ELSE <<>>
    ELSE IF node.k = "seq" THEN MatchSeq(node.parts, 1, s, i, caps, ci)
    ELSE IF node.k = "alt" THEN MatchAlt(node.parts, 1, s, i, caps, ci)
    ELSE IF node.k = "rep" THEN MatchRep(node, s, i, caps, ci, 0)
    ELSE IF node.k = "grp" THEN
        LET rs == Match(node.sub, s, i, caps, ci)
        IN  [j \in 1..Len(rs) |->
                [pos |-> rs[j].pos,
                 caps |-> [rs[j].caps EXCEPT ![node.idx] = <<i, rs[j].pos>>]]]
    ELSE IF node.k = "start" THEN
        IF i = 0 THEN <<[pos |-> i, caps |-> caps]>> ELSE <<>>
    ELSE IF node.k = "end" THEN
        IF i = Len(s) THEN <<[pos |-> i, caps |-> caps]>> ELSE <<>>
    ELSE <<>>
MatchSeq(parts, j, s, i, caps, ci) ==
    IF j > Len(parts) THEN <<[pos |-> i, caps |-> caps]>>
    ELSE MatchThen(Match(parts[j], s, i, caps, ci), 1, parts, j + 1, s, ci)
MatchThen(rs, r, parts, j, s, ci) ==
    IF r > Len(rs) THEN <<>>
    ELSE MatchSeq(parts, j, s, rs[r].pos, rs[r].caps, ci)
            \o MatchThen(rs, r + 1, parts, j, s, ci)
MatchAlt(parts, j, s, i, caps, ci) ==
    IF j > Len(parts) THEN <<>>
    ELSE Match(parts[j], s, i, caps, ci) \o MatchAlt(parts, j + 1, s, i, caps, ci)
MatchRep(node, s, i, caps, ci, count) ==
    LET stop == IF count >= node.min THEN <<[pos |-> i, caps |-> caps]>> ELSE <<>>
        more == IF node.max = Unbounded \/ count < node.max
                  THEN MatchAgain(Match(node.sub, s, i, caps, ci), 1, node, s, i, ci, count)
                  ELSE <<>>
    IN  IF node.greedy THEN more \o stop ELSE stop \o more
MatchAgain(rs, r, node, s, i, ci, count) ==
    IF r > Len(rs) THEN <<>>
    ELSE (IF rs[r].pos > i
            THEN MatchRep(node, s, rs[r].pos, rs[r].caps, ci, count + 1)
            ELSE <<rs[r]>>)
         \o MatchAgain(rs, r + 1, node, s, i, ci, count)

\* Regex::new on the source `src` (flags, anchors and parts in order): the
\* compiled regex, or ok = FALSE when the parser rejects it
RegexNew(src) ==
    LET nflags == SkipWhile([j \in 1..Len(src) |-> src[j].k], 1, {"flag"}) - 1
        body == Cat(SubSeq(src, nflags + 1, Len(src)))
        names == GroupNamesOf(body)
        named == {j \in 1..Len(names) : names[j] # None}
        ok == /\ ~HasBad(body)
              /\ \A j \in named : ValidGroupName(names[j][1])
              /\ \A j1, j2 \in named : j1 # j2 => names[j1] # names[j2]
    IN  [ ok |-> ok,
          src |-> src,
          ci |-> \E j \in 1..nflags : src[j].f = "i",
          node |-> Number(body, 1).node,
          names |-> names ]

\* Regex::captures: the leftmost-first match of regex re in s, if any, as
\* Some(capture table); entry 0 is the whole match
RECURSIVE CapturesFrom(_, _, _)
CapturesFrom(re, s, i) ==
    IF i > Len(s) THEN None
    ELSE LET rs == Match(re.node, s, i,
                         [g \in 1..Len(re.names) |-> None], re.ci)
         IN  IF rs # <<>>
               THEN Some([g \in 0..Len(re.names) |->
                            IF g = 0 THEN <<i, rs[1].pos>> ELSE rs[1].caps[g]])
               ELSE CapturesFrom(re, s, i + 1)
captures(re, s) == CapturesFrom(re, s, 0)

\* Captures::get and Captures::name
cap_get(re, caps, g) == IF g \in 1..Len(re.names) THEN caps[g] ELSE None
cap_name(re, caps, name) ==
    IF \E g \in 1..Len(re.names) : re.names[g] = Some(name)
      THEN caps[CHOOSE g \in 1..Len(re.names) : re.names[g] = Some(name)]
      ELSE None

-----------------------------------------------------------------------------
(* Converters (extra_types) *)

\* a converter object: `pattern` is None when the attribute is missing or is
\* no string; regex_group_count is missing, None or an integer; `fn` names
\* what calling it returns
Missing == [k |-> "missing", n |-> 0]
PyNone == [k |-> "none", n |-> 0]
PyInt(n) == [k |-> "int", n |-> n]
Converter(id, pattern, rgc, fn) ==
    [id |-> id, pattern |-> pattern, regex_group_count |-> rgc, fn |-> fn]

\* converter patterns of the model and what the regex parser makes of them
PatPlain == <<"x", "+">>
PatOneGroup == <<"(", "x", ")">>
PatTwoGroups == <<"(", "x", ")", "(", "y", ")">>
PatNonCapturing == <<"(", "?", ":", "x", ")">>
PatNamedGroup == <<"(", "?", "P", "<", "n", ">", "x", ")">>
PatEscapedParen == <<"\\", "(", "x">>
PatUnclosed == <<"(", "x">>
PatClassParen == <<"[", "(", "]", "x">>

RegexParse(text) ==
    IF text = PatPlain THEN Plus(Lit("x"))
    ELSE IF text = PatOneGroup THEN Grp(None, Lit("x"))
    ELSE IF text = PatTwoGroups
      THEN Cat(<<Grp(None, Lit("x")), Grp(None, Lit("y"))>>)
    ELSE IF text = PatNonCapturing THEN Lit("x")
    ELSE IF text = PatNamedGroup THEN Grp(Some(<<"n">>), Lit("x"))
    ELSE IF text = PatEscapedParen THEN Cat(<<Lit("("), Lit("x")>>)
    ELSE IF text = PatClassParen THEN Cat(<<Cls({"("}, FALSE), Lit("x")>>)
    ELSE Bad

\* new_with_extra_types, lines 29-43: the patterns of the converters that
\* have a string `pattern` attribute
CustomPatternsOf(extra_types) ==
    IF extra_types = None THEN << >>
    ELSE LET m == extra_types[1]
             have == {n \in DOMAIN m : m[n].pattern # None}
         IN  [n \in have |-> m[n].pattern[1]]

-----------------------------------------------------------------------------
(* Regex fragment emitter: FieldSpec::to_regex_pattern *)

SignPattern(spec, default) ==
    IF spec.sign = None THEN default
    ELSE IF spec.sign[1] = "+" THEN Opt(Lit("+"))
    ELSE IF spec.sign[1] = "-" THEN Opt(Lit("-"))
    ELSE IF spec.sign[1] = " " THEN Opt(Cls({"-", " "}, FALSE))
    ELSE default

PlusMinus == Opt(Cls({"+", "-"}, FALSE))
BraceWsCls == Cls({"{", "}"} \cup Whitespace, TRUE)
\* [^\{\}\s]+(?:\s+[^\{\}\s]+)*?
AlignedText ==
    Cat(<<Plus(BraceWsCls), LazyStar(Cat(<<Plus(WsCls), Plus(BraceWsCls)>>))>>)

StringPattern(spec, next_field_is_greedy) ==
    IF spec.precision # None THEN Exactly(AnyChar, spec.precision[1])
    ELSE IF spec.width # None THEN
        IF next_field_is_greedy = Some(FALSE)
          THEN Exactly(AnyChar, spec.width[1])
          ELSE AtLeast(AnyChar, spec.width[1])
    ELSE IF spec.alignment # None THEN
        IF spec.alignment[1] = "<"
          THEN Cat(<<Grp(None, AlignedText), Star(WsCls)>>)
        ELSE IF spec.alignment[1] = ">"
          THEN Cat(<<Star(Lit(" ")), Grp(None, LazyPlus(AnyChar))>>)
        ELSE IF spec.alignment[1] = "^"
          THEN Cat(<<Star(WsCls), Grp(None, AlignedText), Star(WsCls)>>)
        ELSE LazyPlus(Cls({"{", "}"}, TRUE))
    ELSE LazyPlus(AnyChar)

Prefixed(letters, digits) == Cat(<<Lit("0"), Cls(letters, FALSE), Plus(digits)>>)

\* faulty variant of IntegerPattern: the width of a zero-padded field is ignored
IntegerPatternAnyWidth(spec) == Cat(<<SignPattern(spec, PlusMinus), Plus(DigitCls)>>)
IntegerPattern(spec) ==
    LET sign == SignPattern(spec, PlusMinus)
        fill_prefix == IF spec.fill # None /\ spec.alignment = Some("=")
                         THEN <<Star(Lit(spec.fill[1]))>> ELSE <<>>
        digits ==
            IF spec.zero_pad THEN
                IF spec.width # None THEN Exactly(DigitCls, spec.width[1])
                ELSE Plus(DigitCls)
            ELSE IF spec.original_type_char \in {Some("x"), Some("X")}
              THEN Alt(<<Prefixed({"x", "X"}, HexCls), Plus(HexCls)>>)
            ELSE IF spec.original_type_char = Some("o")
              THEN Alt(<<Prefixed({"o", "O"}, OctCls), Plus(OctCls)>>)
            ELSE IF spec.original_type_char = Some("b")
              THEN Alt(<<Prefixed({"b", "B"}, BinCls), Plus(BinCls)>>)
            ELSE Alt(<<Prefixed({"x", "X"}, HexCls), Prefixed({"o", "O"}, OctCls),
                       Prefixed({"b", "B"}, BinCls), Plus(DigitCls)>>)
    IN  Cat(<<sign>> \o fill_prefix \o <<digits>>)

\* pieces of the date and time fragments
Digit(min, max) == Rep(DigitCls, min, max, TRUE)
Words(names) == Alt([j \in 1..Len(names) |-> escape(Str(names[j]))])
SignCls == Cls({"+", "-"}, FALSE)
Weekdays == <<"Mon", "Tue", "Wed", "Thu", "Fri", "Sat", "Sun">>
MonthAbbr == <<"Jan", "Feb", "Mar", "Apr", "May", "Jun",
               "Jul", "Aug", "Sep", "Oct", "Nov", "Dec">>
\* the full names the fragments and the month maps list: May is among the
\* abbreviations only
MonthFull == <<"January", "February", "March", "April", "June", "July",
               "August", "September", "October", "November", "December">>

\* \d{4}-\d{2}-\d{2}(?:[T ]\d{2}:\d{2}(?::\d{2}(?:\.\d+)?)?)?
\* (?:\s*[Zz]|\s*[+-]\d{2}:?\d{2}|\s*[+-]\d{4})?
IsoPattern ==
    Cat(<< Digit(4, 4), Lit("-"), Digit(2, 2), Lit("-"), Digit(2, 2),
           Opt(Cat(<< Cls({"T", " "}, FALSE), Digit(2, 2), Lit(":"), Digit(2, 2),
                      Opt(Cat(<< Lit(":"), Digit(2, 2),
                                 Opt(Cat(<<Lit("."), Plus(DigitCls)>>)) >>)) >>)),
           Opt(Alt(<< Cat(<<Star(WsCls), Cls({"Z", "z"}, FALSE)>>),
                      Cat(<<Star(WsCls), SignCls, Digit(2, 2), Opt(Lit(":")), Digit(2, 2)>>),
                      Cat(<<Star(WsCls), SignCls, Digit(4, 4)>>) >>)) >>)

\* (?:(?:Mon|...|Sun),\s+)?\d{1,2}\s+(?:Jan|...|Dec)\s+\d{4}\s+
\* \d{2}:\d{2}:\d{2}\s+[+-]\d{2}:?\d{2,4}
Rfc2822Pattern ==
    Cat(<< Opt(Cat(<<Words(Weekdays), Lit(","), Plus(WsCls)>>)),
           Digit(1, 2), Plus(WsCls), Words(MonthAbbr), Plus(WsCls), Digit(4, 4),
           Plus(WsCls), Digit(2, 2), Lit(":"), Digit(2, 2), Lit(":"), Digit(2, 2),
           Plus(WsCls), SignCls, Digit(2, 2), Opt(Lit(":")), Digit(2, 4) >>)

\* \d{1,2}:\d{2}(?::\d{2})?(?:\s+[AP]M)?(?:\s+[+-]\d{h,2}:?\d{2,4})?  where h is
\* 1 in the Time and Global fragments and 2 in the US fragment
ClockPattern(tz_hour_digits) ==
    Cat(<< Digit(1, 2), Lit(":"), Digit(2, 2), Opt(Cat(<<Lit(":"), Digit(2, 2)>>)),
           Opt(Cat(<<Plus(WsCls), Cls({"A", "P"}, FALSE), Lit("M")>>)),
           Opt(Cat(<< Plus(WsCls), SignCls, Digit(tz_hour_digits, 2),
                      Opt(Lit(":")), Digit(2, 4) >>)) >>)
NumberOrMonth == Alt(<<Digit(1, 2)>> \o Words(MonthAbbr \o MonthFull).parts)
DateSep == Cls({"-", "/"}, FALSE)

\* \d{1,2}[-/](?:\d{1,2}|Jan|...|December)[-/]\d{4}(?:\s+<clock>)?
GlobalPattern ==
    Cat(<< Digit(1, 2), DateSep, NumberOrMonth, DateSep, Digit(4, 4),
           Opt(Cat(<<Plus(WsCls), ClockPattern(1)>>)) >>)

\* (?:\d{1,2}|Jan|...|December)[-/]\d{1,2}[-/]\d{4}(?:\s+<clock>)?
UsPattern ==
    Cat(<< NumberOrMonth, DateSep, Digit(1, 2), DateSep, Digit(4, 4),
           Opt(Cat(<<Plus(WsCls), ClockPattern(2)>>)) >>)

\* strftime_to_regex, lines 13-33: the regex of the directive %next_ch
StrftimeDirective(next_ch) ==
    IF next_ch = "Y" THEN Digit(4, 4)
    ELSE IF next_ch = "y" THEN Digit(2, 2)
    ELSE IF next_ch \in {"m", "d", "H", "M", "S"} THEN Digit(1, 2)
    ELSE IF next_ch \in {"b", "h"} THEN Rep(LetterCls, 3, 3, TRUE)
    ELSE IF next_ch = "B" THEN Plus(LetterCls)
    ELSE IF next_ch = "a" THEN Rep(LetterCls, 3, 3, TRUE)
    ELSE IF next_ch = "A" THEN Plus(LetterCls)
    ELSE IF next_ch = "w" THEN DigitCls
    ELSE IF next_ch = "j" THEN Digit(1, 3)
    ELSE IF next_ch \in {"U", "W"} THEN Digit(2, 2)
    ELSE IF next_ch \in {"c", "x", "X"} THEN Plus(AnyChar)
    ELSE IF next_ch = "%" THEN Lit("%")
    ELSE LazyPlus(AnyChar)

RECURSIVE StrftimeLoop(_, _, _)
\* strftime_to_regex, lines 10-40: the scan from position i of format_str; a
\* '%' that ends the template yields nothing
StrftimeLoop(format_str, i, regex_parts) ==
    IF i > Len(format_str) THEN regex_parts
    ELSE IF format_str[i] = "%" THEN
        IF i + 1 <= Len(format_str)
          THEN StrftimeLoop(format_str, i + 2,
                            Append(regex_parts, StrftimeDirective(format_str[i + 1])))
          ELSE regex_parts
    ELSE StrftimeLoop(format_str, i + 1, Append(regex_parts, escape(<<format_str[i]>>)))

\* strftime_to_regex: the parts that regex_parts.join("") puts side by side
strftime_to_regex(format_str) == StrftimeLoop(format_str, 1, <<>>)

\* the fragment of one field; None as next_field_is_greedy is "no next field"
to_regex_pattern(spec, custom_patterns, next_field_is_greedy) ==
    LET tag == spec.field_type.tag IN
    IF tag = "String" THEN StringPattern(spec, next_field_is_greedy)
    ELSE IF tag = "Integer" THEN IntegerPattern(spec)
    ELSE IF tag = "Letters" THEN Plus(LetterCls)
    ELSE IF tag = "Word" THEN Plus(WordCls)
    ELSE IF tag = "NonLetters" THEN Plus(Cls(Lower \cup Upper, TRUE))
    ELSE IF tag = "NonWhitespace" THEN Plus(NonWsCls)
    ELSE IF tag = "NonDigits" THEN Plus(Cls(Digits, TRUE))
    ELSE IF tag = "DateTimeISO" THEN IsoPattern
    ELSE IF tag = "DateTimeRFC2822" THEN Rfc2822Pattern
    ELSE IF tag = "DateTimeGlobal" THEN GlobalPattern
    ELSE IF tag = "DateTimeUS" THEN UsPattern
    ELSE IF tag = "DateTimeTime" THEN ClockPattern(1)
    ELSE IF tag = "DateTimeStrftime" THEN
        IF spec.strftime_format # None
          THEN Cat(strftime_to_regex(spec.strftime_format[1]))
          ELSE LazyPlus(AnyChar)
    ELSE IF tag = "Custom" THEN
        IF spec.field_type.cname \in DOMAIN custom_patterns
          THEN RegexParse(custom_patterns[spec.field_type.cname])
          ELSE Plus(NonWsCls)
    ELSE Bad

-----------------------------------------------------------------------------
(* Pattern compiler: FormatParser::parse_field, parse_pattern *)

RECURSIVE NameLoop(_, _, _, _, _)
\* parse_field, lines 680-732: read the field name from position i of pattern p
NameLoop(p, i, field_name, in_name, in_brackets) ==
    LET stop(j, inn, e) ==
            [pos |-> j, field_name |-> field_name, in_name |-> inn, err |-> e]
    IN
    IF i > Len(p) THEN stop(i, in_name, "none")
    ELSE LET ch == p[i] IN
        IF ch = ":" THEN stop(i + 1, FALSE, "none")
        ELSE IF ch = "!" THEN
            NameLoop(p, IF i + 1 <= Len(p) THEN i + 2 ELSE i + 1,
                     field_name, FALSE, in_brackets)
        ELSE IF ch = "}" THEN stop(i, in_name, "none")
        ELSE IF ch = "[" THEN NameLoop(p, i + 1, Append(field_name, ch), in_name, TRUE)
        ELSE IF ch = "]" THEN NameLoop(p, i + 1, Append(field_name, ch), in_name, FALSE)
        ELSE IF ch \in {"'", "\""} THEN
            IF in_brackets THEN stop(i, in_name, "not_implemented")
            ELSE stop(i, FALSE, "none")
        ELSE IF is_alphanumeric(ch) \/ ch \in {"_", "-", "."}
          THEN NameLoop(p, i + 1, Append(field_name, ch), in_name, in_brackets)
        ELSE stop(i, FALSE, "none")

\* parse_field: the field that starts at position i (just after its '{');
\* pos is the position it stops at (the closing '}' or the end of p)
parse_field(p, i) ==
    LET nm == NameLoop(p, i, <<>>, TRUE, FALSE)
        close == IF nm.in_name THEN nm.pos
                 ELSE SkipWhile(p, nm.pos, Range(p) \ {"}"})
        format_spec == SubSeq(p, nm.pos, close - 1)
    IN  [ err |-> nm.err,
          spec |-> parse_format_spec(format_spec),
          name |-> IF nm.field_name = <<>> THEN None ELSE Some(nm.field_name),
          pos |-> close ]

RECURSIVE NextFieldIsGreedy(_, _)
\* parse_pattern, lines 366-414: peek from position i (the current field's
\* closing brace) at the next field: Some(FALSE) for a bare {}, Some(TRUE)
\* for another field, None when the peek finds no field
NextFieldIsGreedy(p, i) ==
    LET j == SkipWhile(p, i, Whitespace) IN
    IF ~(j <= Len(p) /\ p[j] = "}") THEN None
    ELSE LET m == SkipWhile(p, j + 1, Whitespace) IN
        IF m <= Len(p) /\ p[m] = "{" THEN
            IF m + 1 <= Len(p) /\ p[m + 1] = "{" THEN NextFieldIsGreedy(p, m + 2)
            ELSE IF m + 1 <= Len(p) /\ p[m + 1] = "}" THEN Some(FALSE)
            ELSE Some(TRUE)
        ELSE None

\* parse_pattern, lines 349-361 and 483-494: the regex of a literal run
FlushLiteral(literal) ==
    IF literal = <<>> THEN <<>>
    ELSE IF trim_end(literal) # literal
      THEN <<Cat(<<escape(trim_end(literal)), Star(WsCls)>>)>>
      ELSE <<escape(literal)>>

RECURSIVE normalize_suffix(_, _, _)
normalize_suffix(base, existing_normalized, suffix_count) ==
    LET normalized == base \o [j \in 1..suffix_count |-> "_"] IN
    IF \E j \in 1..Len(existing_normalized) : existing_normalized[j] = Some(normalized)
      THEN normalize_suffix(base, existing_normalized, suffix_count + 1)
      ELSE normalized

\* faulty variant of normalize_field_name: dots are kept
NormalizeHyphenOnly(name, existing_normalized) ==
    normalize_suffix([j \in 1..Len(name) |-> IF name[j] = "-" THEN "_" ELSE name[j]],
                     existing_normalized, 0)
\* FormatParser::normalize_field_name
normalize_field_name(name, existing_normalized) ==
    LET base_normalized ==
            [j \in 1..Len(name) |-> IF name[j] \in {"-", "."} THEN "_" ELSE name[j]]
    IN  normalize_suffix(base_normalized, existing_normalized, 0)

\* FormatParser::field_types_match: std::mem::discriminant compares the variant
field_types_match(t1, t2) == t1.tag = t2.tag

\* maps (HashMap, dict) are functions; Put adds or replaces one entry
EmptyMap == << >>
\* faulty variant of Put: the value already stored under the key is kept
PutKept(m, key, v) == m @@ (key :> v)
Put(m, key, v) == (key :> v) @@ m
HasKey(m, key) == key \in DOMAIN m

\* faulty variant of CompileError: every error is a ValueError
CompileErrorValue(kind) == [status |-> "error", kind |-> "value"]
\* the PyErr a constructor call ends in: ValueError or NotImplementedError
CompileError(kind) == [status |-> "error", kind |-> kind]

RECURSIVE PatternLoop(_, _, _, _)
\* parse_pattern, lines 338-480: scan pattern p from position i; acc holds the
\* tables built so far and the pending literal
PatternLoop(p, i, acc, custom_patterns) ==
    LET Entry(f, seen, named, normalized) ==
            IF seen /\ ~field_types_match(acc.field_name_types[f.name[1]], f.spec.field_type)
              THEN CompileError("value")
            ELSE IF ~(f.pos <= Len(p) /\ p[f.pos] = "}") THEN CompileError("value")
            ELSE PatternLoop(p, f.pos + 1,
                [ acc EXCEPT
                    !.literal = <<>>,
                    !.field_name_types =
                        IF f.name # None /\ ~seen
                          THEN Put(@, f.name[1], f.spec.field_type) ELSE @,
                    !.regex_parts =
                        Append(@ \o FlushLiteral(acc.literal),
                               Grp(IF named THEN Some(normalized) ELSE None,
                                   to_regex_pattern(f.spec, custom_patterns,
                                                    NextFieldIsGreedy(p, f.pos)))),
                    !.field_specs = Append(@, f.spec),
                    !.field_names = Append(@, IF named THEN f.name ELSE None),
                    !.normalized_names = Append(@, IF named THEN Some(normalized) ELSE None),
                    !.name_mapping = IF named THEN Put(@, normalized, f.name[1]) ELSE @ ],
                custom_patterns)
        Field(f) ==
            IF f.err # "none" THEN CompileError(f.err)
            ELSE Entry(f,
                       f.name # None /\ HasKey(acc.field_name_types, f.name[1]),
                       f.name # None /\ \E j \in 1..Len(f.name[1]) :
                                            ~is_ascii_digit(f.name[1][j]),
                       normalize_field_name(f.name[1], acc.normalized_names))
    IN
    IF i > Len(p) THEN
        [acc EXCEPT !.regex_parts = @ \o FlushLiteral(acc.literal), !.literal = <<>>]
    ELSE IF p[i] = "{" /\ i + 1 <= Len(p) /\ p[i + 1] = "{" THEN
        PatternLoop(p, i + 2, [acc EXCEPT !.literal = Append(@, "{")], custom_patterns)
    ELSE IF p[i] = "{" THEN Field(parse_field(p, i + 1))
    ELSE IF p[i] = "}" /\ i + 1 <= Len(p) /\ p[i + 1] = "}" THEN
        PatternLoop(p, i + 2, [acc EXCEPT !.literal = Append(@, "}")], custom_patterns)
    ELSE PatternLoop(p, i + 1, [acc EXCEPT !.literal = Append(@, p[i])], custom_patterns)

\* FormatParser::parse_pattern: the tables of pattern p, or the error raised
parse_pattern(p, custom_patterns) ==
    PatternLoop(p, 1,
        [ status |-> "ok", regex_parts |-> <<>>, field_specs |-> <<>>,
          field_names |-> <<>>, normalized_names |-> <<>>,
          name_mapping |-> EmptyMap, field_name_types |-> EmptyMap,
          literal |-> <<>> ],
        custom_patterns)

\* faulty variant of WithAnchors: the closing $ is left out
NoEndAnchor(regex_parts) == <<AssertStart>> \o regex_parts
\* format!("^{}$", regex_str), line 497
WithAnchors(regex_parts) == <<AssertStart>> \o regex_parts \o <<AssertEnd>>

NotCompiled == [status |-> "none"]

\* FormatParser::new_with_extra_types: the constructor
new_with_extra_types(pattern, extra_types) ==
    LET Build(t, regex, twin) ==
            IF ~regex.ok THEN CompileError("value")
            ELSE [ status |-> "ok",
                   pattern |-> pattern,
                   regex |-> regex,
                   regex_str |-> t.regex_parts,
                   regex_case_insensitive |-> IF twin.ok THEN Some(twin) ELSE None,
                   field_specs |-> t.field_specs,
                   field_names |-> t.field_names,
                   normalized_names |-> t.normalized_names,
                   name_mapping |-> t.name_mapping,
                   stored_extra_types |-> extra_types ]
        Tables(t) ==
            IF t.status # "ok" THEN t
            ELSE Build(t, RegexNew(<<Flag("s")>> \o WithAnchors(t.regex_parts)),
                          RegexNew(<<Flag("s"), Flag("i")>> \o WithAnchors(t.regex_parts)))
    IN  Tables(parse_pattern(pattern, CustomPatternsOf(extra_types)))

-----------------------------------------------------------------------------
(* Value conversion: FieldSpec::convert_value *)

\* Python values: strings, integers and dicts
PyStr(q) == [t |-> "str", v |-> q]
PyInteger(n) == [t |-> "int", v |-> n]
PyDict(m) == [t |-> "dict", v |-> m]
\* faulty variant of PyEq: any two values compare equal
PyEqAlways(a, b) == TRUE
\* Python's ==
PyEq(a, b) == a.t = b.t /\ a.v = b.v

Converted(v) == [ok |-> TRUE, v |-> v, kind |-> "none"]
Raised(kind) == [ok |-> FALSE, v |-> PyStr(<<>>), kind |-> kind]

HexDigitSeq == DigitSeq \o <<"a","b","c","d","e","f">>

\* Numbers of up to 64 bits are kept as decimal digits, least significant
\* first, while they are computed.
RECURSIVE MulAdd(_, _, _)
\* the digits of radix * acc + carry
MulAdd(acc, radix, carry) ==
    IF acc = <<>> THEN
        IF carry = 0 THEN <<>>
        ELSE <<carry % 10>> \o MulAdd(<<>>, radix, carry \div 10)
    ELSE <<(Head(acc) * radix + carry) % 10>>
           \o MulAdd(Tail(acc), radix, (Head(acc) * radix + carry) \div 10)

\* the decimal numeral of the digits acc, most significant first
Numeral(acc) == [j \in 1..Len(acc) |-> DigitSeq[acc[Len(acc) + 1 - j] + 1]]

\* numeral a denotes a greater number than numeral b (no leading zeros)
Exceeds(a, b) ==
    \/ Len(a) > Len(b)
    \/ /\ Len(a) = Len(b)
       /\ \E k \in 1..Len(a) :
              /\ DigitVal(a[k]) > DigitVal(b[k])
              /\ \A j \in 1..(k - 1) : a[j] = b[j]

\* i64::MAX and the magnitude of i64::MIN
I64Max == Str("9223372036854775807")
I64MinMagnitude == Str("9223372036854775808")

\* an i64, as its sign and the decimal numeral of its magnitude
I64(neg, numeral) == [neg |-> neg /\ numeral # <<>>, numeral |-> numeral]
\* -n
Negated(n) == I64(~n.neg, n.numeral)
\* n.to_object(py): a number of at most nine digits is an integer of the
\* model, a longer one is kept as its sign and numeral
IntoPy(n) ==
    IF Len(n.numeral) > 9 THEN PyInteger(n)
    ELSE IF n.neg THEN PyInteger(0 - ParseUsize(n.numeral, 0))
    ELSE PyInteger(ParseUsize(n.numeral, 0))

RECURSIVE RadixValue(_, _, _)
\* the value of the digit string q in base radix, None at a character that
\* is no digit of the base
RadixValue(q, radix, acc) ==
    IF q = <<>> THEN Some(acc)
    ELSE LET c == to_lowercase_char(Head(q)) IN
         IF c \in Range(SubSeq(HexDigitSeq, 1, radix))
           THEN RadixValue(Tail(q), radix, MulAdd(acc, radix, IndexIn(HexDigitSeq, c) - 1))
           ELSE None

\* i64::from_str_radix and str::parse::<i64>: an optional sign, then at least
\* one digit of the base; a number outside i64 is an error
from_str_radix(q, radix) ==
    LET signed == q # <<>> /\ q[1] \in {"+", "-"}
        Magnitude(neg, digits, mag) ==
            IF digits = <<>> \/ mag = None THEN None
            ELSE IF Exceeds(Numeral(mag[1]), IF neg THEN I64MinMagnitude ELSE I64Max)
              THEN None
            ELSE Some(I64(neg, Numeral(mag[1])))
    IN  Magnitude(signed /\ q[1] = "-",
                  IF signed THEN Tail(q) ELSE q,
                  RadixValue(IF signed THEN Tail(q) ELSE q, radix, <<>>))

\* convert_value, lines 379-455
convert_integer(spec, value) ==
    LET hex_type == spec.original_type_char \in {Some("x"), Some("X")}
        Value(is_negative, v) ==
            IF v = None THEN Raised("value")
            ELSE Converted(IntoPy(IF is_negative THEN Negated(v[1]) ELSE v[1]))
        Unsigned(is_negative, num_str) ==
            LET pre(c1, c2) == starts_with(num_str, <<"0", c1>>)
                                 \/ starts_with(num_str, <<"0", c2>>)
                rest == SubSeq(num_str, 3, Len(num_str))
            IN  Value(is_negative,
                  from_str_radix(
                    IF pre("x", "X") \/ pre("o", "O") THEN rest
                    ELSE IF pre("b", "B") THEN
                        IF hex_type /\ Len(num_str) = 2 THEN <<"B">>
                        ELSE IF hex_type THEN Tail(num_str)
                        ELSE rest
                    ELSE num_str,
                    IF pre("x", "X") THEN 16
                    ELSE IF pre("o", "O") THEN 8
                    ELSE IF pre("b", "B") THEN (IF hex_type THEN 16 ELSE 2)
                    ELSE IF spec.original_type_char = Some("b") THEN 2
                    ELSE IF spec.original_type_char = Some("o") THEN 8
                    ELSE IF hex_type THEN 16
                    ELSE 10))
        Signed(trimmed) ==
            Unsigned(starts_with(trimmed, <<"-">>),
                   IF starts_with(trimmed, <<"-">>) \/ starts_with(trimmed, <<"+">>)
                     THEN Tail(trimmed) ELSE trimmed)
        Trimmed(trimmed0) ==
            Signed(IF ~(spec.fill # None /\ spec.alignment = Some("=")) THEN trimmed0
                   ELSE IF trimmed0 # <<>> /\ trimmed0[1] \in {"-", "+"}
                     THEN <<trimmed0[1]>> \o trim_start_matches(Tail(trimmed0), spec.fill[1])
                   ELSE trim_start_matches(trimmed0, spec.fill[1]))
    IN  Trimmed(trim(value))

\* convert_value, lines 369-378
convert_string(spec, value) ==
    IF spec.alignment = Some("<") THEN trim_end(value)
    ELSE IF spec.alignment = Some(">") THEN trim_start(value)
    ELSE IF spec.alignment = Some("^") THEN trim(value)
    ELSE value

\* ---- date and time sub-parsers: datetime_parse.rs ----

\* Python datetime.datetime and datetime.time values; tzinfo is None or
\* Some(FixedTzOffset)
PyDateTime(year, month, day, hour, minute, second, microsecond, tzinfo) ==
    [ t |-> "datetime",
      v |-> [ year |-> year, month |-> month, day |-> day, hour |-> hour,
              minute |-> minute, second |-> second, microsecond |-> microsecond,
              tzinfo |-> tzinfo ] ]
PyTime(hour, minute, second, microsecond, tzinfo) ==
    [ t |-> "time",
      v |-> [ hour |-> hour, minute |-> minute, second |-> second,
              microsecond |-> microsecond, tzinfo |-> tzinfo ] ]

DaysInMonth(year, month) ==
    IF month \in {4, 6, 9, 11} THEN 30
    ELSE IF month # 2 THEN 31
    ELSE IF year % 4 = 0 /\ (year % 100 # 0 \/ year % 400 = 0) THEN 29
    ELSE 28

\* time_class.call1((hour, minute, second, microsecond, tzinfo)): the
\* constructor raises ValueError on a component out of range
time_new(hour, minute, second, microsecond, tzinfo) ==
    IF hour \in 0..23 /\ minute \in 0..59 /\ second \in 0..59
         /\ microsecond \in 0..999999
      THEN Converted(PyTime(hour, minute, second, microsecond, tzinfo))
      ELSE Raised("value")

\* datetime_class.call1((year, month, day, hour, minute, second, microsecond, tzinfo))
datetime_new(year, month, day, hour, minute, second, microsecond, tzinfo) ==
    IF /\ year \in 1..9999 /\ month \in 1..12 /\ day \in 1..DaysInMonth(year, month)
       /\ hour \in 0..23 /\ minute \in 0..59 /\ second \in 0..59
       /\ microsecond \in 0..999999
      THEN Converted(PyDateTime(year, month, day, hour, minute, second,
                                microsecond, tzinfo))
      ELSE Raised("value")

\* create_fixed_tz: FixedTzOffset(offset_minutes, name)
create_fixed_tz(offset_minutes, name) ==
    Some([offset |-> offset_minutes, name |-> name])

\* m.as_str() of a capture, and its value as an unsigned number
TextOf(value, cap) == SubSeq(value, cap[1] + 1, cap[2])
NumberOf(value, cap) == ParseUsize(TextOf(value, cap), 0)

\* sign * (tz_hour * 60 + tz_min)
offset_minutes(sign_str, tz_hour, tz_min) ==
    (IF sign_str = <<"+">> THEN 1 ELSE 0 - 1) * (tz_hour * 60 + tz_min)

\* faulty variant of Microsecond: the digits are not padded
MicrosecondUnpadded(s) == ParseUsize(SubSeq(s, 1, IF Len(s) < 6 THEN Len(s) ELSE 6), 0)
\* parse_iso_datetime, lines 39-43: format!("{:0<6}", s), its first 6
\* characters, parsed
Microsecond(s) ==
    LET Parsed(padded) ==
            ParseUsize(SubSeq(padded, 1, IF Len(padded) < 6 THEN Len(padded) ELSE 6), 0)
    IN  Parsed(s \o [j \in 1..(IF Len(s) < 6 THEN 6 - Len(s) ELSE 0) |-> "0"])

\* the date and clock part every ISO regex starts with
\* (\d{4})-(\d{2})-(\d{2})[T ](\d{2}):(\d{2})(?::(\d{2})(?:\.(\d+))?)?
IsoClock ==
    << Grp(None, Digit(4, 4)), Lit("-"), Grp(None, Digit(2, 2)), Lit("-"),
       Grp(None, Digit(2, 2)), Cls({"T", " "}, FALSE),
       Grp(None, Digit(2, 2)), Lit(":"), Grp(None, Digit(2, 2)),
       Opt(Cat(<< Lit(":"), Grp(None, Digit(2, 2)),
                  Opt(Cat(<<Lit("."), Grp(None, Plus(DigitCls))>>)) >>)) >>

\* parse_iso_datetime: the regexes are tried in the order of the source
parse_iso_datetime(value) ==
    LET G(m, g) == TextOf(value, m[g])
        N(m, g) == NumberOf(value, m[g])
        Re(suffix) == RegexNew(<<AssertStart>> \o IsoClock \o suffix \o <<AssertEnd>>)
        Clock(m, tzinfo) ==
            datetime_new(N(m, 1), N(m, 2), N(m, 3), N(m, 4), N(m, 5),
                         IF m[6] = None THEN 0 ELSE N(m, 6),
                         IF m[7] = None THEN 0 ELSE Microsecond(G(m, 7)),
                         tzinfo)
        Shifted(m) ==
            Clock(m, create_fixed_tz(offset_minutes(G(m, 8), N(m, 9), N(m, 10)), <<>>))
        Plain(m) == IF m # None THEN Clock(m[1], None) ELSE Raised("value")
        Colon(m) ==
            IF m # None THEN Shifted(m[1])
            ELSE Plain(captures(Re(<<>>), value))
        Four(m) ==
            IF m # None THEN Shifted(m[1])
            ELSE Colon(captures(Re(<< Star(WsCls), Grp(None, SignCls),
                                      Grp(None, Digit(2, 2)), Lit(":"),
                                      Grp(None, Digit(2, 2)) >>), value))
        Zulu(m) ==
            IF m # None THEN Clock(m[1], create_fixed_tz(0, Str("UTC")))
            ELSE Four(captures(Re(<< Star(WsCls), Grp(None, SignCls),
                                     Grp(None, Digit(2, 2)),
                                     Grp(None, Digit(2, 2)) >>), value))
        Date(m) ==
            IF m # None
              THEN datetime_new(N(m[1], 1), N(m[1], 2), N(m[1], 3), 0, 0, 0, 0, None)
              ELSE Zulu(captures(Re(<<Cls({"Z", "z"}, FALSE)>>), value))
    IN  Date(captures(RegexNew(<< AssertStart, Grp(None, Digit(4, 4)), Lit("-"),
                                  Grp(None, Digit(2, 2)), Lit("-"),
                                  Grp(None, Digit(2, 2)), AssertEnd >>), value))

\* month_map.get(month_name): the abbreviations, and the full names where
\* the map lists them
month_map(month_name, full_names) ==
    IF \E j \in 1..12 : Str(MonthAbbr[j]) = month_name
      THEN Some(CHOOSE j \in 1..12 : Str(MonthAbbr[j]) = month_name)
    ELSE IF full_names /\ \E j \in 1..11 : Str(MonthFull[j]) = month_name
      THEN LET j == CHOOSE k \in 1..11 : Str(MonthFull[k]) = month_name
           IN  Some(IF j <= 4 THEN j ELSE j + 1)
    ELSE None

\* parse_rfc2822_datetime: weekday and +HHMM, weekday and +HH:MM, no weekday
\* and +HHMM
parse_rfc2822_datetime(value) ==
    LET Re(weekday, colon) ==
            RegexNew(
                <<AssertStart>>
                \o (IF weekday THEN <<Words(Weekdays), Lit(","), Plus(WsCls)>> ELSE <<>>)
                \o << Grp(None, Digit(1, 2)), Plus(WsCls), Grp(None, Words(MonthAbbr)),
                      Plus(WsCls), Grp(None, Digit(4, 4)), Plus(WsCls),
                      Grp(None, Digit(2, 2)), Lit(":"), Grp(None, Digit(2, 2)), Lit(":"),
                      Grp(None, Digit(2, 2)), Plus(WsCls), Grp(None, SignCls),
                      Grp(None, Digit(2, 2)) >>
                \o (IF colon THEN <<Lit(":")>> ELSE <<>>)
                \o <<Grp(None, Digit(2, 2)), AssertEnd>>)
        N(m, g) == NumberOf(value, m[g])
        Build(m) ==
            IF month_map(TextOf(value, m[2]), FALSE) = None THEN Raised("value")
            ELSE datetime_new(N(m, 3), month_map(TextOf(value, m[2]), FALSE)[1], N(m, 1),
                              N(m, 4), N(m, 5), N(m, 6), 0,
                              create_fixed_tz(
                                  offset_minutes(TextOf(value, m[7]), N(m, 8), N(m, 9)),
                                  <<>>))
        Bare(m) == IF m # None THEN Build(m[1]) ELSE Raised("value")
        Colon(m) ==
            IF m # None THEN Build(m[1]) ELSE Bare(captures(Re(FALSE, FALSE), value))
        Four(m) ==
            IF m # None THEN Build(m[1]) ELSE Colon(captures(Re(TRUE, TRUE), value))
    IN  Four(captures(Re(TRUE, FALSE), value))

\* str::to_uppercase on ASCII text
to_uppercase(q) == [j \in 1..Len(q) |-> IF q[j] \in Lower THEN SwapCase(q[j]) ELSE q[j]]

\* str::find: the offset of the first occurrence of pat in q
find(q, pat) ==
    LET hits == {i \in 0..(Len(q) - Len(pat)) : SubSeq(q, i + 1, i + Len(pat)) = pat}
    IN  IF hits = {} THEN None ELSE Some(CHOOSE i \in hits : \A j \in hits : i <= j)

\* faulty variant of ampm_hour: PM adds 12 to every hour
ampm_hour_added(hour, half) ==
    IF half = "AM" THEN (IF hour = 12 THEN 0 ELSE hour)
    ELSE IF half = "PM" THEN hour + 12
    ELSE hour
\* the hour of a clock read before AM, before PM, or without either:
\* if hour == 12 { hour = 0 } and if hour != 12 { hour += 12 }
ampm_hour(hour, half) ==
    IF half = "AM" THEN (IF hour = 12 THEN 0 ELSE hour)
    ELSE IF half = "PM" THEN (IF hour # 12 THEN hour + 12 ELSE hour)
    ELSE hour

\* the closure parse_time_with_ampm of the Global and US parsers, which
\* parse_time repeats in its body: <<hour, minute, second>>
parse_time_with_ampm(time_str) ==
    LET Clock == RegexNew(<< Grp(None, Digit(1, 2)), Lit(":"), Grp(None, Digit(2, 2)),
                             Opt(Cat(<<Lit(":"), Grp(None, Digit(2, 2))>>)) >>)
        Read(part, m, half) ==
            IF m = None THEN <<0, 0, 0>>
            ELSE << ampm_hour(NumberOf(part, m[1][1]), half),
                    NumberOf(part, m[1][2]),
                    IF m[1][3] = None THEN 0 ELSE NumberOf(part, m[1][3]) >>
        Part(part, half) == Read(part, captures(Clock, part), half)
        Halves(am, pm) ==
            Part(IF am # None THEN trim(SubSeq(time_str, 1, am[1]))
                 ELSE IF pm # None THEN trim(SubSeq(time_str, 1, pm[1]))
                 ELSE time_str,
                 IF am # None THEN "AM" ELSE IF pm # None THEN "PM" ELSE "24")
    IN  Halves(find(to_uppercase(time_str), Str("AM")),
               find(to_uppercase(time_str), Str("PM")))

\* the closure parse_tz: ([+-])(\d{h,2}):?(\d{2}) with h = 1 in the Global
\* and Time parsers and h = 2 in the US parser, then ([+-])(\d{4}) where the
\* parser has that second attempt, then None
parse_tz(tz_str, hour_digits, four_digits) ==
    LET Split(m) ==
            IF m # None
              THEN create_fixed_tz(
                       offset_minutes(TextOf(tz_str, m[1][1]),
                                      ParseUsize(SubSeq(TextOf(tz_str, m[1][2]), 1, 2), 0),
                                      ParseUsize(SubSeq(TextOf(tz_str, m[1][2]), 3, 4), 0)),
                       <<>>)
              ELSE None
        Pair(m) ==
            IF m # None
              THEN create_fixed_tz(
                       offset_minutes(TextOf(tz_str, m[1][1]), NumberOf(tz_str, m[1][2]),
                                      NumberOf(tz_str, m[1][3])), <<>>)
            ELSE IF four_digits
              THEN Split(captures(RegexNew(<< Grp(None, SignCls),
                                              Grp(None, Digit(4, 4)) >>), tz_str))
            ELSE None
    IN  Pair(captures(RegexNew(<< Grp(None, SignCls), Grp(None, Digit(hour_digits, 2)),
                                  Opt(Lit(":")), Grp(None, Digit(2, 2)) >>), tz_str))

\* . without the s flag
Dot == Cls({"\n"}, TRUE)

\* the body parse_global_datetime and parse_us_datetime share; us swaps the
\* day and month groups, asks two hour digits of parse_tz and lets the
\* timezone check take \d{2,4} minutes. The numeric regex is tried first,
\* then the regex of named months; date is None when neither matches or the
\* month map has no entry for the name
parse_day_month(value, us) ==
    LET Rest == Opt(Cat(<<Plus(WsCls), Grp(None, Plus(Dot))>>))
        TzCheck == RegexNew(<< Plus(WsCls),
                               Grp(None, Cat(<< SignCls, Digit(2, 2), Opt(Lit(":")),
                                                Digit(2, IF us THEN 4 ELSE 2) >>)),
                               AssertEnd >>)
        At(date, hms, tzinfo) ==
            IF date = None THEN Raised("value")
            ELSE datetime_new(date[1].year, date[1].month, date[1].day,
                              hms[1], hms[2], hms[3], 0, tzinfo)
        Clock(time_str, tz_str) ==
            IF time_str = None THEN <<0, 0, 0>>
            ELSE parse_time_with_ampm(
                     IF tz_str = None THEN time_str[1]
                     ELSE trim(SubSeq(time_str[1], 1, Len(time_str[1]) - Len(tz_str[1]))))
        Zoned(date, time_str, tz_str) ==
            At(date, Clock(time_str, tz_str),
               IF tz_str = None THEN None
               ELSE parse_tz(tz_str[1], IF us THEN 2 ELSE 1, TRUE))
        Timed(date, time_str, tz) ==
            Zoned(date, time_str,
                  IF tz = None THEN None ELSE Some(TextOf(time_str[1], tz[1][1])))
        Checked(date, time_str) ==
            Timed(date, time_str,
                  IF time_str = None THEN None ELSE captures(TzCheck, time_str[1]))
        Dated(date, time_part) ==
            Checked(date, IF date = None \/ time_part = None THEN None
                          ELSE Some(trim(TextOf(value, time_part))))
        Month(name) ==
            IF name = None THEN None
            ELSE IF \A j \in 1..Len(name[1]) : name[1][j] \in Digits
              THEN Some(ParseUsize(name[1], 0))
            ELSE month_map(name[1], TRUE)
        Found(m) ==
            Dated(IF m = None \/ Month(Some(TextOf(value, m[1][IF us THEN 1 ELSE 2]))) = None
                    THEN None
                    ELSE Some([ year |-> NumberOf(value, m[1][3]),
                                month |-> Month(Some(TextOf(value,
                                                     m[1][IF us THEN 1 ELSE 2])))[1],
                                day |-> NumberOf(value, m[1][IF us THEN 2 ELSE 1]) ]),
                  IF m = None THEN None ELSE m[1][4])
        Numeric(m) ==
            Found(IF m # None THEN m
                  ELSE captures(RegexNew(
                      <<AssertStart>>
                      \o (IF us THEN << Grp(None, Words(MonthAbbr \o MonthFull)), DateSep,
                                        Grp(None, Digit(1, 2)) >>
                                ELSE << Grp(None, Digit(1, 2)), DateSep,
                                        Grp(None, Words(MonthAbbr \o MonthFull)) >>)
                      \o <<DateSep, Grp(None, Digit(4, 4)), Rest, AssertEnd>>), value))
    IN  Numeric(captures(RegexNew(<< AssertStart, Grp(None, Digit(1, 2)), DateSep,
                                     Grp(None, Digit(1, 2)), DateSep,
                                     Grp(None, Digit(4, 4)), Rest, AssertEnd >>), value))

parse_global_datetime(value) == parse_day_month(value, FALSE)
parse_us_datetime(value) == parse_day_month(value, TRUE)

\* parse_time
parse_time(value) ==
    LET Timed(hms, tzinfo) == time_new(hms[1], hms[2], hms[3], 0, tzinfo)
        Split(time_str, tzinfo) == Timed(parse_time_with_ampm(time_str), tzinfo)
        Checked(tz) ==
            Split(IF tz # None
                    THEN trim(SubSeq(value, 1, Len(value) - Len(TextOf(value, tz[1][1]))))
                    ELSE trim(value),
                  IF tz # None THEN parse_tz(TextOf(value, tz[1][1]), 1, FALSE) ELSE None)
    IN  Checked(captures(RegexNew(<< Plus(WsCls),
                                     Grp(None, Cat(<< SignCls, Digit(1, 2), Opt(Lit(":")),
                                                      Digit(2, 4) >>)),
                                     AssertEnd >>), value))

\* convert_value, lines 333-357: the name a converter overrides the type by
TypeNameOf(field_type) ==
    IF field_type.tag = "Custom" THEN field_type.cname
    ELSE IF field_type.tag = "String" THEN <<"s">>
    ELSE IF field_type.tag = "Integer" THEN <<"d">>
    ELSE IF field_type.tag = "Letters" THEN <<"l">>
    ELSE IF field_type.tag = "Word" THEN <<"w">>
    ELSE IF field_type.tag = "NonLetters" THEN <<"W">>
    ELSE IF field_type.tag = "NonWhitespace" THEN <<"S">>
    ELSE IF field_type.tag = "NonDigits" THEN <<"D">>
    ELSE IF field_type.tag = "DateTimeISO" THEN <<"t", "i">>
    ELSE IF field_type.tag = "DateTimeRFC2822" THEN <<"t", "e">>
    ELSE IF field_type.tag = "DateTimeGlobal" THEN <<"t", "g">>
    ELSE IF field_type.tag = "DateTimeUS" THEN <<"t", "a">>
    ELSE IF field_type.tag = "DateTimeTime" THEN <<"t", "t">>
    ELSE <<"?">>

\* converter.call1((value,)): what the converter object returns or raises
CallConverter(converter, value) ==
    IF converter.fn = "len" THEN Converted(PyInteger(Len(value)))
    ELSE IF converter.fn = "raise" THEN Raised("value")
    ELSE Converted(PyStr(value))

\* FieldSpec::convert_value
convert_value(spec, value, custom_converters) ==
    LET type_name == TypeNameOf(spec.field_type) IN
    IF HasKey(custom_converters, type_name)
      THEN CallConverter(custom_converters[type_name], value)
    ELSE IF spec.field_type.tag = "String" THEN Converted(PyStr(convert_string(spec, value)))
    ELSE IF spec.field_type.tag = "Integer" THEN convert_integer(spec, value)
    ELSE IF spec.field_type.tag = "DateTimeISO" THEN parse_iso_datetime(value)
    ELSE IF spec.field_type.tag = "DateTimeRFC2822" THEN parse_rfc2822_datetime(value)
    ELSE IF spec.field_type.tag = "DateTimeGlobal" THEN parse_global_datetime(value)
    ELSE IF spec.field_type.tag = "DateTimeUS" THEN parse_us_datetime(value)
    ELSE IF spec.field_type.tag = "DateTimeTime" THEN parse_time(value)
    ELSE Converted(PyStr(value))

-----------------------------------------------------------------------------
(* Matcher: FormatParser::match_with_regex and its helpers *)

RECURSIVE CountLoop(_, _, _)
\* count_capturing_groups, lines 525-558; i is 1-based
CountLoop(chars, i, count) ==
    LET n == Len(chars) IN
    IF i > n THEN count
    ELSE IF chars[i] = "\\" THEN CountLoop(chars, i + 2, count)
    ELSE IF chars[i] = "(" THEN
        IF i + 1 <= n /\ chars[i + 1] = "?" THEN
            LET j == i + 2
                special == j <= n /\ (chars[j] \in {":", "=", "!", "<"}
                                      \/ (chars[j - 1] = "?" /\ chars[j] = "P"))
                is_named == special /\ chars[j] = "P" /\ j + 1 <= n /\ chars[j + 1] = "<"
                gt == SkipWhile(chars, j + 2, Range(chars) \ {">"})
            IN  IF is_named THEN CountLoop(chars, IF gt <= n THEN gt + 1 ELSE gt, count)
                ELSE CountLoop(chars, j, count)
        ELSE CountLoop(chars, i + 1, count + 1)
    ELSE CountLoop(chars, i + 1, count)

\* FormatParser::count_capturing_groups
count_capturing_groups(pattern) == CountLoop(pattern, 1, 0)

RECURSIVE PathLoop(_, _, _, _, _, _)
\* parse_field_path, lines 575-603
PathLoop(name, i, path, current, in_brackets, bracket_content) ==
    IF i > Len(name) THEN
        IF current # <<>> THEN Append(path, current) ELSE path
    ELSE IF name[i] = "[" THEN
        PathLoop(name, i + 1, IF current # <<>> THEN Append(path, current) ELSE path,
                 <<>>, TRUE, bracket_content)
    ELSE IF name[i] = "]" THEN
        IF in_brackets
          THEN PathLoop(name, i + 1, Append(path, bracket_content), current, FALSE, <<>>)
          ELSE PathLoop(name, i + 1, path, current, in_brackets, bracket_content)
    ELSE IF in_brackets
      THEN PathLoop(name, i + 1, path, current, TRUE, Append(bracket_content, name[i]))
      ELSE PathLoop(name, i + 1, path, Append(current, name[i]), FALSE, bracket_content)

\* FormatParser::parse_field_path: "a[b][c]" is the path a, b, c
parse_field_path(field_name) == PathLoop(field_name, 1, <<>>, <<>>, FALSE, <<>>)

RECURSIVE SetPath(_, _, _)
\* insert_nested_dict, lines 646-668: set the leaf at path in dict m, making
\* (or replacing a non-dict by) the dicts on the way
SetPath(m, path, value) ==
    IF Len(path) = 1 THEN Put(m, path[1], value)
    ELSE LET sub == IF HasKey(m, path[1]) /\ m[path[1]].t = "dict"
                      THEN m[path[1]].v ELSE EmptyMap
         IN  Put(m, path[1], PyDict(SetPath(sub, Tail(path), value)))

\* FormatParser::insert_nested_dict
insert_nested_dict(named, path, value) ==
    IF path = <<>> THEN named ELSE SetPath(named, path, value)

RECURSIVE to_string(_)
\* usize::to_string
to_string(n) ==
    IF n < 10 THEN <<DigitSeq[n + 1]>>
    ELSE to_string(n \div 10) \o <<DigitSeq[(n % 10) + 1]>>

Absent == [kind |-> "absent"]
\* faulty variant of CallError: the error is swallowed and the call is absent
CallErrorSwallowed(err) == Absent
\* the PyErr a call ends in
CallError(err) == [kind |-> "error", err |-> err]

\* match_with_regex, lines 154-204: the check of a custom field's converter;
\* groups is what the field adds to group_offset
ValidateCustom(spec, custom_converters) ==
    LET name == spec.field_type.cname
        Check(rgc, actual_groups) ==
            [ err |-> IF rgc.k = "int" THEN
                          IF rgc.n < 0 THEN "value"
                          ELSE IF rgc.n = 0 /\ actual_groups > 0 THEN "value"
                          ELSE IF rgc.n > actual_groups THEN "index"
                          ELSE "none"
                      ELSE IF actual_groups > 0 THEN "value" ELSE "none",
              groups |-> actual_groups ]
    IN  IF /\ spec.field_type.tag = "Custom"
           /\ HasKey(custom_converters, name)
           /\ custom_converters[name].pattern # None
          THEN Check(custom_converters[name].regex_group_count,
                     count_capturing_groups(custom_converters[name].pattern[1]))
          ELSE [err |-> "none", groups |-> 0]

\* match_with_regex, lines 206-221: the capture of field k (1-based) of the
\* compiled pattern c, None when the group is missing
FieldCapture(c, re, caps, k, group_offset) ==
    LET capture_group_index == (k - 1) + 1 + group_offset IN
    IF c.normalized_names[k] # None
      THEN cap_name(re, caps, c.normalized_names[k][1])
    ELSE IF c.field_specs[k].alignment # None THEN
        IF cap_get(re, caps, capture_group_index + 1) # None
          THEN cap_get(re, caps, capture_group_index + 1)
          ELSE cap_get(re, caps, capture_group_index)
    ELSE cap_get(re, caps, capture_group_index)

RECURSIVE FieldLoop(_, _, _, _, _, _, _, _)
\* match_with_regex, lines 153-310: the extraction loop from field k on, and
\* the object built after it
FieldLoop(c, re, caps, string, k, acc, custom_converters, evaluate_result) ==
    LET spec == c.field_specs[k]
        original_name == c.field_names[k][1]
        \* the loop goes on to the next field with the locals a, or the
        \* function returns out
        next(a) == [returned |-> FALSE, locals |-> a]
        return(out) == [returned |-> TRUE, out |-> out]
        Store(raw, converted) ==
            IF ~evaluate_result THEN next(raw)
            ELSE IF ~converted.ok THEN return(CallError(converted.kind))
            ELSE IF c.field_names[k] = None THEN
                next([raw EXCEPT !.fixed = Append(@, converted.v)])
            ELSE IF "[" \in Range(original_name) THEN
                next([raw EXCEPT !.named =
                        insert_nested_dict(@, parse_field_path(original_name), converted.v)])
            ELSE IF HasKey(acc.named, original_name)
                      /\ ~PyEq(acc.named[original_name], converted.v) THEN return(Absent)
            ELSE next([raw EXCEPT !.named = Put(@, original_name, converted.v)])
        Value(cap, value_str, offset, converted) ==
            Store([acc EXCEPT
                      !.group_offset = offset,
                      !.captures_vec = Append(@, Some(value_str)),
                      !.named_captures =
                          IF c.normalized_names[k] # None
                            THEN Put(@, c.normalized_names[k][1], value_str) ELSE @,
                      !.field_spans =
                          IF c.field_names[k] # None THEN Put(@, original_name, cap)
                          ELSE Put(@, to_string(acc.fixed_index), cap),
                      !.fixed_index = IF c.field_names[k] # None THEN @ ELSE @ + 1],
                  converted)
        Capture(cap, offset, converted) ==
            IF cap = None THEN
                next([acc EXCEPT !.group_offset = offset, !.captures_vec = Append(@, None)])
            ELSE Value(cap, SubSeq(string, cap[1] + 1, cap[2]), offset, converted)
        \* converted is spec.convert_value(value_str, py, &custom_converters),
        \* which the loop calls when the field has a capture
        Checked(check, cap, converted) ==
            IF check.err # "none" THEN return(CallError(check.err))
            ELSE Capture(cap,
                         acc.group_offset + (IF spec.alignment # None THEN 1 ELSE 0)
                           + check.groups,
                         converted)
        ValueStr(cap) == IF cap = None THEN <<>> ELSE SubSeq(string, cap[1] + 1, cap[2])
        Iteration(body) ==
            IF body.returned THEN body.out
            ELSE FieldLoop(c, re, caps, string, k + 1, body.locals,
                           custom_converters, evaluate_result)
    IN
    IF k > Len(c.field_specs) THEN
        IF evaluate_result
          THEN [kind |-> "result", fixed |-> acc.fixed, named |-> acc.named,
                span |-> caps[0], field_spans |-> acc.field_spans]
          ELSE [kind |-> "match", captures_vec |-> acc.captures_vec,
                named_captures |-> acc.named_captures,
                span |-> caps[0], field_spans |-> acc.field_spans]
    ELSE Iteration(Checked(ValidateCustom(spec, custom_converters),
                           FieldCapture(c, re, caps, k, acc.group_offset),
                           convert_value(
                               spec,
                               ValueStr(FieldCapture(c, re, caps, k, acc.group_offset)),
                               custom_converters)))

\* FormatParser::match_with_regex; extra_types is an Option of a map
match_with_regex(c, re, string, extra_types, evaluate_result) ==
    LET m == captures(re, string) IN
    IF m = None THEN Absent
    ELSE FieldLoop(c, re, m[1], string, 1,
            [ fixed |-> <<>>, named |-> EmptyMap, field_spans |-> EmptyMap,
              captures_vec |-> <<>>, named_captures |-> EmptyMap,
              fixed_index |-> 0, group_offset |-> 0 ],
            IF extra_types = None THEN EmptyMap ELSE extra_types[1],
            evaluate_result)

\* FormatParser::parse_internal
parse_internal(c, string, case_sensitive, extra_types, evaluate_result) ==
    LET regex == IF case_sensitive \/ c.regex_case_insensitive = None
                   THEN c.regex ELSE c.regex_case_insensitive[1]
    IN  match_with_regex(c, regex, string, extra_types, evaluate_result)

\* search_pattern, lines 80-91: the regex source without (?s), ^ and $
StripAnchors(src) ==
    LET a == IF src # <<>> /\ src[1].k = "flag" /\ src[1].f = "s" THEN Tail(src) ELSE src
        b == IF a # <<>> /\ a[1].k = "start" THEN Tail(a) ELSE a
    IN  IF b # <<>> /\ b[Len(b)].k = "end" THEN SubSeq(b, 1, Len(b) - 1) ELSE b

\* faulty variant of SearchFlags: (?i) is never added
SearchFlagsSensitive(case_sensitive) == <<Flag("s")>>
\* search_pattern, lines 94-103: (?s), and (?i) unless case sensitive
SearchFlags(case_sensitive) ==
    IF case_sensitive THEN <<Flag("s")>> ELSE <<Flag("s"), Flag("i")>>

\* search_pattern, lines 80-103: the regex search runs
SearchRegex(c, case_sensitive) ==
    RegexNew(SearchFlags(case_sensitive) \o StripAnchors(c.regex.src))

\* FormatParser::search_pattern
search_pattern(c, string, case_sensitive, extra_types, evaluate_result) ==
    IF ~SearchRegex(c, case_sensitive).ok THEN CallError("value")
    ELSE IF captures(SearchRegex(c, case_sensitive), string) # None
      THEN match_with_regex(c, SearchRegex(c, case_sensitive), string, extra_types,
                            evaluate_result)
    ELSE Absent

\* faulty variant of MergedExtraTypes: a stored converter wins over the one
\* the call passes under the same name
MergedStoredFirst(c, extra_types) ==
    LET stored == IF c.stored_extra_types = None THEN EmptyMap
                  ELSE c.stored_extra_types[1]
    IN  Some(IF extra_types = None THEN stored ELSE stored @@ extra_types[1])
\* parse (the Python method), lines 920-929: the stored converters with the
\* call's own laid over them
MergedExtraTypes(c, extra_types) ==
    LET stored == IF c.stored_extra_types = None THEN EmptyMap
                  ELSE c.stored_extra_types[1]
    IN  Some(IF extra_types = None THEN stored ELSE extra_types[1] @@ stored)

\* faulty variant of parse: the fields are converted whatever
\* evaluate_result says
parse_evaluated(c, string, case_sensitive, extra_types, evaluate_result) ==
    parse_internal(c, string, case_sensitive, MergedExtraTypes(c, extra_types), TRUE)
\* FormatParser::parse
parse(c, string, case_sensitive, extra_types, evaluate_result) ==
    parse_internal(c, string, case_sensitive, MergedExtraTypes(c, extra_types),
                   evaluate_result)

-----------------------------------------------------------------------------
(* The state machine: one FormatParser object and the calls made on it *)

NoCall == [op |-> "none"]
NoCtor == [made |-> FALSE]

Init == ctor = NoCtor /\ compiled = NotCompiled /\ call = NoCall

\* FormatParser(pattern, extra_types): the object, or the error raised
Compile(pattern, extra_types) ==
    /\ ~ctor.made
    /\ ctor' = [made |-> TRUE, pattern |-> pattern, extra_types |-> extra_types]
    /\ compiled' = new_with_extra_types(pattern, extra_types)
    /\ UNCHANGED call

CallRecord(op, string, case_sensitive, extra_types, evaluate_result, outcome) ==
    [ op |-> op, string |-> string, case_sensitive |-> case_sensitive,
      extra_types |-> extra_types, evaluate_result |-> evaluate_result,
      outcome |-> outcome ]

\* faulty variant of StoredAfterMerge: the per-call entries are merged into
\* the stored map itself
StoredMergedInPlace(c, extra_types) == MergedExtraTypes(c, extra_types)
\* FormatParser::parse, line 921: the merge works on a clone, so the stored
\* extra_types are after the call what they were before it
StoredAfterMerge(c, extra_types) == c.stored_extra_types

\* compiled.parse(string, case_sensitive, extra_types, evaluate_result)
Parse(string, case_sensitive, extra_types, evaluate_result) ==
    /\ compiled.status = "ok"
    /\ call = NoCall
    /\ call' = CallRecord("parse", string, case_sensitive, extra_types, evaluate_result,
                  parse(compiled, string, case_sensitive, extra_types, evaluate_result))
    /\ compiled' = [compiled EXCEPT
                       !.stored_extra_types = StoredAfterMerge(compiled, extra_types)]
    /\ UNCHANGED ctor

\* search_pattern(string, case_sensitive, extra_types, evaluate_result)
Search(string, case_sensitive, extra_types, evaluate_result) ==
    /\ compiled.status = "ok"
    /\ call = NoCall
    /\ call' = CallRecord("search", string, case_sensitive, extra_types, evaluate_result,
                  search_pattern(compiled, string, case_sensitive, extra_types,
                                 evaluate_result))
    /\ UNCHANGED <<ctor, compiled>>

\* FormatParser::named_fields: the normalized names that are not None, in
\* the order of the fields
named_fields(c) ==
    LET Names(some) == [i \in 1..Len(some) |-> some[i][1]]
    IN  Names(SelectSeq(c.normalized_names, LAMBDA n : n # None))

\* compiled.named_fields
NamedFields ==
    /\ compiled.status = "ok"
    /\ call = NoCall
    /\ call' = [op |-> "named_fields", outcome |-> named_fields(compiled)]
    /\ UNCHANGED <<ctor, compiled>>

\* the caller takes the outcome of the call; the parser is ready for the next call
Return ==
    /\ call # NoCall
    /\ call' = NoCall
    /\ UNCHANGED <<ctor, compiled>>

RECURSIVE Concats(_, _)
\* the strings made of at most n pieces of the set P
Concats(P, n) ==
    IF n = 0 THEN {<<>>}
    ELSE LET shorter == Concats(P, n - 1)
         IN  shorter \cup {a \o b : a \in shorter, b \in P}

\* the strings of at most n characters of the set A
Strings(A, n) == UNION {[1..m -> A] : m \in 0..n}

-----------------------------------------------------------------------------
(* Specification Spec: string fields, repeated names, alignment *)

MatchPieces ==
    { <<"{", "}">>,
      <<"{", "a", "}">>,
      <<"{", ":", ">", "1", "}">>,
      <<"{", ":", ">", "}">>,
      <<" ">>,
      <<"x">> }
MatchInputChars == {"x", "X", " "}
\* a converter that overrides the built-in string type by the length
LenConverter == Converter("len", None, Missing, "len")
MatchExtras == {None, Some(<<"s">> :> LenConverter)}

CompileM ==
    \E p \in Concats(MatchPieces, MaxPieces) : Compile(p, None)
ParseM ==
    \E s \in Strings(MatchInputChars, MaxLen), cs, ev \in BOOLEAN, et \in MatchExtras :
        Parse(s, cs, et, ev)
SearchM ==
    \E s \in Strings(MatchInputChars, MaxLen), cs, ev \in BOOLEAN, et \in MatchExtras :
        Search(s, cs, et, ev)

Next == CompileM \/ ParseM \/ SearchM \/ Return

Spec == Init /\ [][Next]_vars

-----------------------------------------------------------------------------
(* Properties of parse and search, checked under Spec *)

Accepted(outcome) == outcome.kind \in {"result", "match"}

\* the regex a parse call runs, and the converters it extracts with
RegexOfCall ==
    IF call.case_sensitive \/ compiled.regex_case_insensitive = None
      THEN compiled.regex ELSE compiled.regex_case_insensitive[1]
ConvertersOfCall == MergedExtraTypes(compiled, call.extra_types)[1]

\* the fields that carry the original name `name`
Occurrences(c, name) ==
    {k \in 1..Len(c.field_names) : c.field_names[k] = Some(name)}
FlatNames(c) ==
    {c.field_names[k][1] : k \in {j \in 1..Len(c.field_names) :
        c.field_names[j] # None /\ "[" \notin Range(c.field_names[j][1])}}
RepeatedFlatNames(c) == {n \in FlatNames(c) : Cardinality(Occurrences(c, n)) >= 2}

\* the converted value of named field k in the match m of the call's input
NamedValue(m, k) ==
    LET cap == cap_name(RegexOfCall, m, compiled.normalized_names[k][1])
    IN  convert_value(compiled.field_specs[k],
                      SubSeq(call.string, cap[1] + 1, cap[2]), ConvertersOfCall)

\* C1: when a flat name is repeated in the pattern and the regex matches, a
\* parse with evaluate_result = TRUE returns a result holding the one value
\* under that name if the occurrences convert to equal values, and returns
\* absent if two of them convert to different values
C1_RepeatedName ==
    (call.op = "parse" /\ call.evaluate_result) =>
        LET m == captures(RegexOfCall, call.string) IN
        \A name \in RepeatedFlatNames(compiled) :
            m # None =>
                LET occ == Occurrences(compiled, name)
                    first == CHOOSE k \in occ : \A j \in occ : k <= j
                    same == \A j, k \in occ :
                                NamedValue(m[1], j).v = NamedValue(m[1], k).v
                IN  IF same
                      THEN /\ call.outcome.kind = "result"
                           /\ name \in DOMAIN call.outcome.named
                           /\ call.outcome.named[name] = NamedValue(m[1], first).v
                      ELSE call.outcome = Absent

\* C1 happens: a pattern that repeats a name was parsed into a result, and
\* the two occurrences captured different text that converts to one value
C1_Witness ==
    /\ call.op = "parse" /\ call.evaluate_result
    /\ RepeatedFlatNames(compiled) # {}
    /\ call.outcome.kind = "result"
    /\ DOMAIN call.outcome.named = {<<"a">>}
    /\ call.outcome.named[<<"a">>].t = "int"
    /\ call.string = <<"x", "X">>

\* the names of the pattern are pairwise different
NoDuplicateNames(c) ==
    \A j, k \in 1..Len(c.field_names) :
        (j # k /\ c.field_names[j] # None) => c.field_names[j] # c.field_names[k]

\* C2: when parse returns a result for a pattern without duplicate names,
\* the positional values and the named values are as many as the field specs
C2_NoFieldDropped ==
    (call.op = "parse" /\ call.outcome.kind = "result" /\ NoDuplicateNames(compiled)) =>
        Len(call.outcome.fixed) + Cardinality(DOMAIN call.outcome.named)
            = Len(compiled.field_specs)

\* what search returns for the input and the arguments of the call
SearchOfCall ==
    search_pattern(compiled, call.string, call.case_sensitive,
                   Some(ConvertersOfCall), call.evaluate_result)
\* the span of the match search finds in the input of the call
SearchSpanOfCall ==
    LET m == captures(SearchRegex(compiled, call.case_sensitive), call.string)
    IN  IF m = None THEN None ELSE Some(m[1][0])

\* C3 as stated: whenever parse accepts an input, search on the same input
\* with the same arguments returns the same result
C3_SearchEqualsParse ==
    (call.op = "parse" /\ Accepted(call.outcome)) => SearchOfCall = call.outcome

\* C3, amended: whenever parse accepts an input, search on the same input
\* with the same arguments finds a match that starts at position 0, and it
\* returns the same result as parse if that match reaches the end of the input
C3_SearchEqualsParseOnWholeSpan ==
    (call.op = "parse" /\ Accepted(call.outcome)) =>
        /\ SearchSpanOfCall # None
        /\ SearchSpanOfCall[1][1] = 0
        /\ SearchSpanOfCall[1][2] = Len(call.string) => SearchOfCall = call.outcome

\* C3 happens: parse accepted an input case-insensitively, with a field, and
\* search matches the whole of it
C3_Witness ==
    /\ call.op = "parse" /\ call.outcome.kind = "result"
    /\ ~call.case_sensitive
    /\ Len(call.outcome.fixed) = 1
    /\ Len(call.string) = 2
    /\ SearchSpanOfCall = Some(<<0, 2>>)
    /\ SearchOfCall = call.outcome

\* the ends of the matches of the emitted regex, without anchors, from offset 0
BodyEnds(c, string, ci) ==
    LET body == Cat(c.regex_str)
        rs == Match(Number(body, 1).node, string, 0,
                    [g \in 1..Len(GroupNamesOf(body)) |-> None], ci)
    IN  {rs[j].pos : j \in 1..Len(rs)}

\* C4: whenever parse accepts an input, the span it reports is the whole
\* input, and the emitted regex matches the input from offset 0 to its end
C4_WholeInput ==
    (call.op = "parse" /\ Accepted(call.outcome)) =>
        /\ call.outcome.span = <<0, Len(call.string)>>
        /\ Len(call.string) \in BodyEnds(compiled, call.string, RegexOfCall.ci)

\* C4 happens: parse accepted, case-insensitively, an input of three
\* characters for a pattern with two fields
C4_Witness ==
    /\ call.op = "parse" /\ Accepted(call.outcome)
    /\ ~call.case_sensitive
    /\ Len(call.string) = 3
    /\ Len(compiled.field_specs) = 2

-----------------------------------------------------------------------------
(* Specification SpecNames: the constructor on patterns of named fields *)

NamePieces ==
    { <<"{", "a", "}">>,
      <<"{", "a", "_", "}">>,
      <<"{", "a", "-", "b", "}">>,
      <<"{", "a", "_", "b", "}">>,
      <<"{", "a", ".", "b", ":", "d", "}">>,
      <<"{", "a", "[", "b", "]", "}">>,
      <<"{", "x", ":", "f", "o", "o", "}">>,
      <<"{", "x", ":", "b", "a", "r", "}">>,
      <<"{", "x", ":", "d", "}">>,
      <<"{", "1", "a", "}">>,
      <<"{", "0", "}">>,
      <<"{", "a">>,
      <<"{", "a", "[", "\"", "k", "\"", "]", "}">> }
foo == <<"f", "o", "o">>
\* a converter whose pattern is no regex
BrokenConverter == Converter("broken", Some(PatUnclosed), Missing, "str")
NameExtras == {None, Some(foo :> BrokenConverter)}

CompileN ==
    \E p \in Concats(NamePieces, MaxNames), et \in NameExtras : Compile(p, et)

NextNames == CompileN \/ NamedFields \/ Return

SpecNames == Init /\ [][NextNames]_vars

\* C5: in a compiled pattern, two fields that share an original name have
\* the same type, the name of a custom type included
C5_MismatchRejected ==
    compiled.status = "ok" =>
        \A j, k \in 1..Len(compiled.field_names) :
            (compiled.field_names[j] # None
                /\ compiled.field_names[j] = compiled.field_names[k])
            => compiled.field_specs[j].field_type = compiled.field_specs[k].field_type

IsIdentifier(name) ==
    /\ name # <<>>
    /\ \A j \in 1..Len(name) : name[j] \in Lower \cup Upper \cup Digits \cup {"_"}
    /\ name[1] \notin Digits

\* C6: in a compiled pattern, every normalised name is an identifier
C6_NormalisedIdentifiers ==
    compiled.status = "ok" =>
        \A k \in 1..Len(compiled.normalized_names) :
            compiled.normalized_names[k] # None
                => IsIdentifier(compiled.normalized_names[k][1])

\* `normalized` is `original` with '-' and '.' replaced by '_', then '_'s only
IsBasePlusUnderscores(normalized, original) ==
    /\ Len(normalized) >= Len(original)
    /\ \A j \in 1..Len(normalized) :
          normalized[j] = IF j > Len(original) \/ original[j] \in {"-", "."}
                            THEN "_" ELSE original[j]

PresentNames(c) ==
    {k \in 1..Len(c.normalized_names) : c.normalized_names[k] # None}

\* C7: in a compiled pattern the normalised names are pairwise different,
\* each is its field's original name with '-' and '.' replaced by '_' and
\* then zero or more '_', and name_mapping sends each to that original name
C7_UniqueNormalisedNames ==
    compiled.status = "ok" =>
        LET c == compiled IN
        /\ Len(c.normalized_names) = Len(c.field_names)
        /\ \A j, k \in PresentNames(c) :
              j # k => c.normalized_names[j] # c.normalized_names[k]
        /\ \A k \in PresentNames(c) :
              /\ c.field_names[k] # None
              /\ IsBasePlusUnderscores(c.normalized_names[k][1], c.field_names[k][1])
              /\ c.normalized_names[k][1] \in DOMAIN c.name_mapping
              /\ c.name_mapping[c.normalized_names[k][1]] = c.field_names[k][1]
        /\ DOMAIN c.name_mapping = {c.normalized_names[k][1] : k \in PresentNames(c)}

\* C7 happens: a-b, a_b and a-b again were compiled; the third needed two '_'
C7_Witness ==
    /\ compiled.status = "ok"
    /\ Len(compiled.field_names) = 3
    /\ compiled.field_names[1] = compiled.field_names[3]
    /\ compiled.field_names[3] = Some(<<"a", "-", "b">>)
    /\ compiled.normalized_names[3] = Some(<<"a", "_", "b", "_", "_">>)

\* the pattern has a field name with a quoted key in brackets from offset i on
QuotedKeyAt(p, i) == i + 1 <= Len(p) /\ p[i] = "[" /\ p[i + 1] \in {"'", "\""}
\* the text of pattern p before the field that position i lies in
BeforeField(p, i) ==
    LET open == CHOOSE b \in 1..i : p[b] = "{" /\ \A j \in b + 1..i : p[j] # "{"
    IN  SubSeq(p, 1, open - 1)

FirstAppearances(c) ==
    SelectSeq([k \in 1..Len(c.field_names) |-> k],
              LAMBDA k : /\ c.field_names[k] # None
                         /\ \A j \in 1..(k - 1) : c.field_names[j] # c.field_names[k])

\* C17: named_fields is the list of the normalised names of the named
\* fields in order of first appearance; positional fields contribute
\* nothing and a name written more than once is listed once
C17_NamedFieldsOnce ==
    call.op = "named_fields" =>
        LET Listed(first) ==
                call.outcome = [i \in 1..Len(first) |->
                                    compiled.normalized_names[first[i]][1]]
        IN  Listed(FirstAppearances(compiled))

-----------------------------------------------------------------------------
(* Specification SpecInt: one zero-padded integer field *)

\* what may stand before the 0 flag: nothing, a sign option, or fill and '='
IntPrefixes == {<<>>, <<"+">>, <<"-">>, <<" ">>, <<"x", "=">>}
IntPatterns ==
    { <<"{", ":">> \o pre \o <<"0">> \o to_string(w) \o <<"d", "}">> :
        pre \in IntPrefixes, w \in 0..MaxWidth }
IntInputChars == {"0", "4", "+", "-", " ", "x"}

CompileI == \E p \in IntPatterns : Compile(p, None)
ParseI ==
    \E s \in Strings(IntInputChars, MaxLen), cs, ev \in BOOLEAN : Parse(s, cs, None, ev)

NextInt == CompileI \/ ParseI \/ Return

SpecInt == Init /\ [][NextInt]_vars

RECURSIVE Decimal(_)
\* the number a string of decimal digits denotes
Decimal(q) ==
    IF q = <<>> THEN 0 ELSE 10 * Decimal(SubSeq(q, 1, Len(q) - 1)) + DigitVal(q[Len(q)])

\* the pattern is one integer field with the zero-pad flag and a width
ZeroPadField(c) ==
    /\ c.status = "ok"
    /\ Len(c.field_specs) = 1
    /\ c.field_specs[1].field_type.tag = "Integer"
    /\ c.field_specs[1].zero_pad
    /\ c.field_specs[1].width # None
FillBeforeDigits(c) ==
    c.field_specs[1].fill # None /\ c.field_specs[1].alignment = Some("=")

\* what C8 says of a parse of input s by a zero-padded field of width w
ZeroPadOutcome(s, w, outcome) ==
    LET signed == s # <<>> /\ s[1] \in {"+", "-", " "}
        digits == IF signed THEN Tail(s) ELSE s
        shaped == Len(digits) = w /\ \A j \in 1..Len(digits) : digits[j] \in Digits
        value == IF signed /\ s[1] = "-" THEN 0 - Decimal(digits) ELSE Decimal(digits)
    IN  /\ outcome.kind \in {"result", "absent"}
        /\ outcome.kind = "result" =>
              /\ shaped
              /\ Len(outcome.fixed) = 1
              /\ outcome.fixed[1].t = "int"
              /\ outcome.fixed[1].v = value
        /\ (shaped /\ ~signed) => outcome.kind = "result"

-----------------------------------------------------------------------------
(* Specification SpecCustom: a custom type and its converter *)

CustomPatterns ==
    { PatPlain, PatOneGroup, PatTwoGroups, PatNonCapturing, PatNamedGroup,
      PatEscapedParen, PatClassParen }
CountValues == {Missing, PyNone} \cup {PyInt(n) : n \in (0 - 1)..MaxCount}
FooConverters ==
    {Converter("foo", Some(pat), rgc, "str") : pat \in CustomPatterns, rgc \in CountValues}
CustomFieldPatterns ==
    { <<"{", ":", "f", "o", "o", "}">>,
      <<"{", "n", ":", "f", "o", "o", "}">>,
      <<"{", ":", "f", "o", "o", "}", "{", "}">> }
CustomInputChars == {"x", "y", "("}

CompileC ==
    \E p \in CustomFieldPatterns, conv \in FooConverters : Compile(p, Some(foo :> conv))
ParseC ==
    \E s \in Strings(CustomInputChars, MaxLen), ev \in BOOLEAN : Parse(s, FALSE, None, ev)

NextCustom == CompileC \/ ParseC \/ Return

SpecCustom == Init /\ [][NextCustom]_vars

\* the capturing groups of a converter's pattern, as the regex engine has them
GroupsOf(pattern) == Len(GroupNamesOf(RegexParse(pattern)))

\* C10: when the regex matches and the first field is a custom field whose
\* converter has a pattern of N capturing groups, the parse ends in a
\* value-kind error if N > 0 and regex_group_count is missing, None or 0, in
\* a value-kind error if the count is negative, in an index-kind error if
\* the count is greater than N, and in no error otherwise
C10_GroupCountValidation ==
    (/\ call.op = "parse"
     /\ compiled.field_specs[1].field_type = Custom(foo)
     /\ captures(RegexOfCall, call.string) # None) =>
        LET conv == ConvertersOfCall[foo]
            N == GroupsOf(conv.pattern[1])
            rgc == conv.regex_group_count
            unset == rgc.k \in {"missing", "none"} \/ (rgc.k = "int" /\ rgc.n = 0)
            error(kind) == call.outcome = CallError(kind)
        IN  IF rgc.k = "int" /\ rgc.n < 0 THEN error("value")
            ELSE IF unset THEN IF N > 0 THEN error("value") ELSE call.outcome.kind # "error"
            ELSE IF rgc.n > N THEN error("index")
            ELSE call.outcome.kind # "error"

\* C22: for every converter pattern the validation of a custom field works
\* with, count_capturing_groups gives the number of capturing groups of the
\* pattern: an unnamed group and a named group count one each; a
\* non-capturing group, an escaped parenthesis and a parenthesis inside a
\* character class count zero
C22_CountsCapturingGroups ==
    (/\ call.op = "parse"
     /\ compiled.field_specs[1].field_type = Custom(foo)
     /\ captures(RegexOfCall, call.string) # None) =>
        ValidateCustom(compiled.field_specs[1], ConvertersOfCall).groups
            = GroupsOf(ConvertersOfCall[foo].pattern[1])

-----------------------------------------------------------------------------
(* Specification SpecConv: conversion failures among several fields *)

ConvPieces ==
    { Str("{a}"), Str("{a}{a}"), Str("{:00d}"), Str("{:d}"), Str("-") }
ConvInputChars == {"x", "y", "1", "-"}
\* a converter that raises ValueError, registered for the string type
RaiseConverter == Converter("raise", None, Missing, "raise")
ConvExtras == {None, Some(<<"s">> :> RaiseConverter)}

CompileV ==
    \E p \in Concats(ConvPieces, MaxPieces) : Compile(p, None)
ParseV ==
    \E s \in Strings(ConvInputChars, MaxLen), ev \in BOOLEAN, et \in ConvExtras :
        Parse(s, FALSE, et, ev)

NextConv == CompileV \/ ParseV \/ Return

SpecConv == Init /\ [][NextConv]_vars

RECURSIVE GroupOffsetAt(_, _, _)
\* group_offset when the extraction loop reaches field k of c
GroupOffsetAt(c, converters, k) ==
    IF k = 1 THEN 0
    ELSE GroupOffsetAt(c, converters, k - 1)
           + (IF c.field_specs[k - 1].alignment # None THEN 1 ELSE 0)
           + ValidateCustom(c.field_specs[k - 1], converters).groups

\* the custom-type validation of the call passes for every field
ValidationPasses ==
    \A k \in 1..Len(compiled.field_specs) :
        ValidateCustom(compiled.field_specs[k], ConvertersOfCall).err = "none"
\* what the call would return with evaluate_result = TRUE
EvaluatedTwin ==
    parse(compiled, call.string, call.case_sensitive, call.extra_types, TRUE)

TextOfField(m, k) ==
    LET Taken(cap) == IF cap = None THEN None
                      ELSE Some(SubSeq(call.string, cap[1] + 1, cap[2]))
    IN  Taken(FieldCapture(compiled, RegexOfCall, m, k,
                           GroupOffsetAt(compiled, ConvertersOfCall, k)))

\* the fields whose captured text the declared type cannot convert
FailingFields(m) ==
    {k \in 1..Len(compiled.field_specs) :
        /\ TextOfField(m, k) # None
        /\ ~convert_value(compiled.field_specs[k], TextOfField(m, k)[1],
                          ConvertersOfCall).ok}

\* a flat name is repeated before field k with a different converted value
MismatchBefore(m, k) ==
    \E i, j \in 1..(k - 1) :
        /\ i < j
        /\ compiled.field_names[i] # None
        /\ compiled.field_names[i] = compiled.field_names[j]
        /\ "[" \notin Range(compiled.field_names[i][1])
        /\ NamedValue(m, i).v # NamedValue(m, j).v

-----------------------------------------------------------------------------
(* Specification SpecDate: one date or time field *)

DatePatterns == {Str("{:tt}"), Str("{:tg}"), Str("{:ta}"), Str("{:ti}"), Str("{:te}")}

\* the written forms the inputs are made of
DayFirst == {"21/11/2011 ", "21-Nov-2011 ", "21/November/2011 "}
MonthFirst == {"11/21/2011 ", "Nov-21-2011 "}
HourTexts == {"1", "09", "12", "13"}
SecondTexts == {"", ":36"}
HalfTexts == {"", " AM", " PM", " pm"}
ZoneTexts == {"", " +1000", " -05:30", " +1:00"}
FractionTexts == {"", ".1", ".000001", ".1234567", ".12", ".999999", ".0000009"}
IsoZoneTexts == {"", "Z", "+0100", " -05:30"}
WeekdayTexts == {"", "Mon, "}
Rfc2822ZoneTexts == {"+1000", "+10:00", "-0530", "-05:30"}

\* a date prefix, a clock of minute 05, AM or PM or neither, a timezone
ClockInput(date, hour, second, half, zone) ==
    Str(date) \o Str(hour) \o Str(":05") \o Str(second) \o Str(half) \o Str(zone)
IsoInput(fraction, zone) == Str("2011-11-21T10:21:36") \o Str(fraction) \o Str(zone)
Rfc2822Input(weekday, zone) ==
    Str(weekday) \o Str("21 Nov 2011 10:21:36 ") \o Str(zone)

\* a date without a clock, alone and before Z, and an offset of six digits
ShapeInputs ==
    { Str("2011-11-21"), Str("2011-11-21Z"), Str("2011-11-21 +0100"),
      Str("Mon, 21 Nov 2011 10:21:36 +100000") }

DateInputs ==
    { ClockInput(d, h, s, a, z) :
          d \in {""} \cup DayFirst \cup MonthFirst, h \in HourTexts,
          s \in SecondTexts, a \in HalfTexts, z \in ZoneTexts }
    \cup { IsoInput(f, z) : f \in FractionTexts, z \in IsoZoneTexts }
    \cup { Rfc2822Input(w, z) : w \in WeekdayTexts, z \in Rfc2822ZoneTexts }
    \cup ShapeInputs

CompileD == \E p \in DatePatterns : Compile(p, None)
ParseD == \E s \in DateInputs : Parse(s, FALSE, None, TRUE)

NextDate == CompileD \/ ParseD \/ Return

SpecDate == Init /\ [][NextDate]_vars

\* the value of the one field of a call that returned a result
ValueOfCall == call.outcome.fixed[1].v

\* the clocks written with AM or PM and an hour in 1..12, under each of the
\* three types that read them
AmPmCases ==
    { [pattern |-> Str(f[1]), string |-> ClockInput(f[2], h, s, a, z),
       hour |-> ParseUsize(Str(h), 0), half |-> a, second |-> s] :
          f \in ({"{:tt}"} \X {""}) \cup ({"{:tg}"} \X DayFirst)
                    \cup ({"{:ta}"} \X MonthFirst),
          h \in {x \in HourTexts : ParseUsize(Str(x), 0) \in 1..12},
          s \in SecondTexts, a \in HalfTexts \ {""}, z \in ZoneTexts }

\* C12: in the Time, Global and US sub-parsers a captured clock with hour h
\* in 1..12 converts to hour 0 for 12 AM and h for any other AM, to 12 for
\* 12 PM and h + 12 for any other PM; minute and second are as written
C12_AmPmRule ==
    (call.op = "parse" /\ captures(RegexOfCall, call.string) # None) =>
        \A c \in AmPmCases :
            (ctor.pattern = c.pattern /\ call.string = c.string) =>
                /\ call.outcome.kind = "result"
                /\ ValueOfCall.hour =
                       (IF c.half = " AM" THEN (IF c.hour = 12 THEN 0 ELSE c.hour)
                        ELSE IF c.hour = 12 THEN 12 ELSE c.hour + 12)
                /\ ValueOfCall.minute = 5
                /\ ValueOfCall.second = (IF c.second = "" THEN 0 ELSE 36)

\* C12 happens: 12:05 AM was read as hour 0 by {:tt}, 12:05 PM as hour 12 by
\* {:tg} or 1:05 pm as hour 13 by {:ta}
C12_Witness ==
    /\ call.op = "parse"
    /\ call.outcome.kind = "result"
    /\ \/ /\ ctor.pattern = Str("{:tt}")
          /\ call.string = ClockInput("", "12", "", " AM", "")
          /\ ValueOfCall.hour = 0
       \/ /\ ctor.pattern = Str("{:tg}")
          /\ call.string = ClockInput("21-Nov-2011 ", "12", ":36", " PM", " +1000")
          /\ ValueOfCall.hour = 12
       \/ /\ ctor.pattern = Str("{:ta}")
          /\ call.string = ClockInput("Nov-21-2011 ", "1", "", " pm", " -05:30")
          /\ ValueOfCall.hour = 13

\* the {:ti} inputs with fractional seconds: the digits written and the
\* string they are written in
FractionCases ==
    { [digits |-> SubSeq(Str(f), 2, Len(Str(f))), string |-> IsoInput(f, z)] :
          f \in FractionTexts \ {""}, z \in IsoZoneTexts }

\* the first six digits of f, the missing ones taken as 0, as one number
PaddedValue(f) ==
    LET d(i) == IF i <= Len(f) THEN DigitVal(f[i]) ELSE 0
    IN  d(1) * 100000 + d(2) * 10000 + d(3) * 1000 + d(4) * 100 + d(5) * 10 + d(6)

\* C13: the microsecond of an ISO date-time with fractional digits f is the
\* value of f padded on the right with '0' to six digits and cut to its
\* first six digits, a number in 0..999999
C13_MicrosecondRule ==
    (call.op = "parse" /\ ctor.pattern = Str("{:ti}")) =>
        \A c \in FractionCases :
            call.string = c.string =>
                /\ call.outcome.kind = "result"
                /\ ValueOfCall.microsecond = PaddedValue(c.digits)
                /\ ValueOfCall.microsecond \in 0..999999

\* C13 happens: .1 was read as 100000, .000001 as 1 or .1234567 as 123456
C13_Witness ==
    /\ call.op = "parse"
    /\ ctor.pattern = Str("{:ti}")
    /\ call.outcome.kind = "result"
    /\ \/ call.string = IsoInput(".1", "Z") /\ ValueOfCall.microsecond = 100000
       \/ call.string = IsoInput(".000001", "") /\ ValueOfCall.microsecond = 1
       \/ call.string = IsoInput(".1234567", "+0100") /\ ValueOfCall.microsecond = 123456

\* the {:te} inputs: the offset written, as sign, hours and minutes, and the
\* string it is written in
Rfc2822Cases ==
    { [sign |-> IF Str(z)[1] = "+" THEN 1 ELSE 0 - 1,
       hours |-> ParseUsize(SubSeq(Str(z), 2, 3), 0),
       minutes |-> ParseUsize(SubSeq(Str(z), Len(Str(z)) - 1, Len(Str(z))), 0),
       string |-> Rfc2822Input(w, z)] :
          w \in WeekdayTexts, z \in Rfc2822ZoneTexts }

\* C14: with and without the weekday, with the offset written +HHMM and
\* +HH:MM, a {:te} field converts to the date-time written, with the offset
\* sign * (HH * 60 + MM) minutes, and never to a conversion error
C14_FourShapes ==
    (call.op = "parse" /\ ctor.pattern = Str("{:te}")) =>
        \A c \in Rfc2822Cases :
            call.string = c.string =>
                /\ call.outcome.kind = "result"
                /\ ValueOfCall =
                       PyDateTime(2011, 11, 21, 10, 21, 36, 0,
                                  create_fixed_tz(c.sign * (c.hours * 60 + c.minutes),
                                                  <<>>)).v

\* the {:tg} inputs that end with a timezone offset: the offset written, in
\* minutes, and the string it is written in
GlobalZoneCases ==
    { [offset |-> o[2], string |-> ClockInput(d, h, s, a, o[1])] :
          d \in DayFirst, h \in HourTexts, s \in SecondTexts, a \in HalfTexts,
          o \in {<<" +1000", 600>>, <<" -05:30", 0 - 330>>, <<" +1:00", 60>>} }

\* C15: whenever a {:tg} capture ends with a timezone offset the Global
\* fragment accepts, a value it converts to carries that offset, in minutes
\* and signed; the offset is never dropped, for numeric and named months alike
C15_OffsetKept ==
    (call.op = "parse" /\ ctor.pattern = Str("{:tg}") /\ call.outcome.kind = "result") =>
        \A c \in GlobalZoneCases :
            call.string = c.string =>
                ValueOfCall.tzinfo = create_fixed_tz(c.offset, <<>>)

\* the inputs a constructor refuses for a component out of range although
\* the sub-parser read them: hour 13 before PM, and month 21 where a numeric
\* date is read in the other order
RangeFaults ==
    { <<p, ClockInput(d, "13", s, a, z)>> :
          p \in DatePatterns, d \in {""} \cup DayFirst \cup MonthFirst,
          s \in SecondTexts, a \in {" PM", " pm"}, z \in ZoneTexts }
    \cup { <<Str(f[1]), ClockInput(f[2], h, s, a, z)>> :
              f \in {<<"{:tg}", "11/21/2011 ">>, <<"{:ta}", "21/11/2011 ">>},
              h \in HourTexts, s \in SecondTexts, a \in HalfTexts, z \in ZoneTexts }

\* C29: every text the fragment of a date or time dialect accepts is accepted
\* by the sub-parser of the dialect: a parse whose regex matched, with every
\* written component in range, never ends in a conversion error
C29_FragmentAgreesWithParser ==
    ( /\ call.op = "parse"
      /\ captures(RegexOfCall, call.string) # None
      /\ <<ctor.pattern, call.string>> \notin RangeFaults ) =>
        call.outcome.kind # "error"

-----------------------------------------------------------------------------
(* Specification SpecOverride: converters registered under built-in type names *)

OverrideTypes == {Str("d"), Str("i"), Str("x"), Str("s"), Str("w")}
OverridePatterns == {Str("{:") \o w \o Str("}") : w \in OverrideTypes}
OverrideExtras == {None} \cup {Some(w :> LenConverter) : w \in OverrideTypes}
OverrideInputChars == {"1", "2", "a"}

CompileO == \E p \in OverridePatterns, et \in OverrideExtras : Compile(p, et)
ParseO ==
    \E s \in Strings(OverrideInputChars, MaxLen), et \in OverrideExtras :
        Parse(s, FALSE, et, TRUE)

SearchO ==
    \E s \in Strings(OverrideInputChars, MaxLen), et \in OverrideExtras :
        Search(s, FALSE, et, TRUE)

NextOverride == CompileO \/ ParseO \/ SearchO \/ Return

SpecOverride == Init /\ [][NextOverride]_vars

\* the type name as written in the one field {:type} of the pattern
WrittenType == SubSeq(ctor.pattern, 3, Len(ctor.pattern) - 1)

\* C16: a field whose written type name has an entry in the effective
\* extra_types gets exactly what that converter returns for the captured
\* text; a converter registered under another name is never applied, the
\* field gets its built-in conversion
C16_ConverterOverride ==
    (call.op = "parse" /\ captures(RegexOfCall, call.string) # None) =>
        LET Expected(r) ==
                IF r.ok THEN /\ call.outcome.kind = "result"
                             /\ call.outcome.fixed = <<r.v>>
                ELSE call.outcome = CallError(r.kind)
        IN  IF HasKey(ConvertersOfCall, WrittenType)
              THEN Expected(CallConverter(ConvertersOfCall[WrittenType], call.string))
              ELSE Expected(convert_value(compiled.field_specs[1], call.string, EmptyMap))

\* the object the constructor call of this behaviour returns
Constructed == new_with_extra_types(ctor.pattern, ctor.extra_types)

-----------------------------------------------------------------------------
(* Specification SpecBase: one integer field written with each type code *)

BaseTypes == {"d", "i", "x", "X", "o", "b"}
BasePatterns == {<<"{", ":", w, "}">> : w \in BaseTypes}
BaseInputChars == {"0", "1", "7", "f", "x", "o", "b"}

CompileB == \E p \in BasePatterns : Compile(p, None)
ParseB == \E s \in Strings(BaseInputChars, MaxLen) : Parse(s, FALSE, None, TRUE)

NextBase == CompileB \/ ParseB \/ Return

SpecBase == Init /\ [][NextBase]_vars

\* the base a type code stands for, and the letter of its prefix
BaseOf(w) == IF w \in {"x", "X"} THEN 16 ELSE IF w = "o" THEN 8 ELSE IF w = "b" THEN 2 ELSE 10
PrefixOf(base) == IF base = 16 THEN "x" ELSE IF base = 8 THEN "o" ELSE "b"

\* the digits of a base, and the number a string of at most three of them
\* writes
DigitsOf(base) == {HexDigitSeq[j] : j \in 1..base}
PlaceValue(q, base) ==
    LET d(i) == IndexIn(HexDigitSeq, q[i]) - 1
    IN  IF Len(q) = 1 THEN d(1)
        ELSE IF Len(q) = 2 THEN d(1) * base + d(2)
        ELSE d(1) * base * base + d(2) * base + d(3)

\* C19: the base of an integer field follows the type code written: {:x}
\* and {:X} accept hex digits with or without 0x and convert in base 16,
\* {:o} octal digits with or without 0o in base 8, {:b} binary digits with
\* or without 0b in base 2, {:d} and {:i} decimal digits or any prefixed form
C19_BaseFollowsType ==
    call.op = "parse" =>
        LET Reads(q, base) ==
                /\ call.outcome.kind = "result"
                /\ call.outcome.fixed = <<PyInteger(PlaceValue(q, base))>>
            Digits2(q, base) == q # <<>> /\ Range(q) \subseteq DigitsOf(base)
            Prefixed2(s, base) ==
                /\ Len(s) = 3
                /\ SubSeq(s, 1, 2) = <<"0", PrefixOf(base)>>
                /\ s[3] \in DigitsOf(base)
            Typed(s, base) ==
                /\ Digits2(s, base) => Reads(s, base)
                /\ \A b \in {16, 8, 2} :
                       (base \in {b, 10} /\ Prefixed2(s, b)) => Reads(<<s[3]>>, b)
        IN  Typed(call.string, BaseOf(ctor.pattern[3]))

\* the index, in the compiled regex, of the group that wraps field k: the
\* k-th group at the top level of the regex
OwnGroup(c, k) == SelectSeq(c.regex.node.parts, LAMBDA n : n.k = "grp")[k].idx

\* C20: when the extraction loop reaches field i (the k-th field, k = i + 1),
\* i + 1 + group_offset is the index of that field's own group in the
\* compiled regex
C20_GroupOffset ==
    (call.op \in {"parse", "search"} /\ Accepted(call.outcome)) =>
        \A k \in 1..Len(compiled.field_specs) :
            k + GroupOffsetAt(compiled, ConvertersOfCall, k) = OwnGroup(compiled, k)

-----------------------------------------------------------------------------
(* Specification SpecGreedy: a width-only string field and the text after it *)

\* fields and literal runs of a pattern of SpecGreedy: a field, the text
\* after it and the next field
MaxGreedyPieces == 3

GreedyPieces ==
    { Str("{:2}"), Str("{}"), Str("{:d}"), Str("x"), Str(" "), Str("{{"), Str("}}") }
GreedyInputChars == {"a", "x", "1"}

CompileG == \E p \in Concats(GreedyPieces, MaxGreedyPieces) : Compile(p, None)
ParseG == \E s \in Strings(GreedyInputChars, MaxLen) : Parse(s, FALSE, None, TRUE)

NextGreedy == CompileG \/ ParseG \/ Return

SpecGreedy == Init /\ [][NextGreedy]_vars

\* the fragment emitted for field k: the body of the k-th group of the regex
FragmentOf(c, k) == SelectSeq(c.regex_str, LAMBDA n : n.k = "grp")[k].sub
\* field k is a string field with a width and no precision
WidthOnly(c, k) ==
    /\ c.field_specs[k].field_type.tag = "String"
    /\ c.field_specs[k].width # None
    /\ c.field_specs[k].precision = None
\* field k is a bare {}
BareField(c, k) == c.field_specs[k] = FieldSpecDefault /\ c.field_names[k] = None

\* C21: a width-only string field of width w compiles to the exact-width
\* fragment .{w} exactly when the next field of the pattern is a bare {}, and
\* to .{w,} when the next field is any other field or there is none,
\* whatever literal text lies between the two fields
C21_GreedinessPropagation ==
    compiled.status = "ok" =>
        \A k \in 1..Len(compiled.field_specs) :
            WidthOnly(compiled, k) =>
                FragmentOf(compiled, k) =
                    IF k < Len(compiled.field_specs) /\ BareField(compiled, k + 1)
                      THEN Exactly(AnyChar, compiled.field_specs[k].width[1])
                      ELSE AtLeast(AnyChar, compiled.field_specs[k].width[1])

-----------------------------------------------------------------------------
(* Specification SpecStrftime: one field whose type is a strftime template *)

StrftimeCodes == {"Y", "y", "m", "d", "H", "M", "S", "f", "b", "h", "B", "%", "Z"}
StrftimeLiterals == {"-", ".", "T"}
StrftimePieces == {<<"%", d>> : d \in StrftimeCodes} \cup {<<l>> : l \in StrftimeLiterals}
\* a template starts with a directive: that is what makes the type a template
StrftimeTemplates ==
    {d \o rest : d \in {<<"%", c>> : c \in StrftimeCodes \ {"%"}},
                 rest \in Concats(StrftimePieces, MaxPieces)}

CompileS == \E f \in StrftimeTemplates : Compile(Str("{:") \o f \o Str("}"), None)

NextStrftime == CompileS

SpecStrftime == Init /\ [][NextStrftime]_vars

\* the template written in the one field of the pattern
TemplateOfCtor == SubSeq(ctor.pattern, 3, Len(ctor.pattern) - 1)

\* the table of C23 for the directive %d
TableEntry(d) ==
    IF d = "Y" THEN Rep(DigitCls, 4, 4, TRUE)
    ELSE IF d = "y" THEN Rep(DigitCls, 2, 2, TRUE)
    ELSE IF d \in {"m", "d", "H", "M", "S"} THEN Rep(DigitCls, 1, 2, TRUE)
    ELSE IF d = "f" THEN Rep(DigitCls, 1, 6, TRUE)
    ELSE IF d \in {"b", "h"} THEN Rep(LetterCls, 3, 3, TRUE)
    ELSE IF d = "B" THEN Rep(LetterCls, 1, Unbounded, TRUE)
    ELSE IF d = "%" THEN Lit("%")
    ELSE Rep(AnyChar, 1, Unbounded, FALSE)

RECURSIVE TableParts(_)
\* the translation of template f by the table, in template order
TableParts(f) ==
    IF f = <<>> THEN <<>>
    ELSE IF f[1] = "%" THEN <<TableEntry(f[2])>> \o TableParts(SubSeq(f, 3, Len(f)))
    ELSE <<Cat(<<Lit(f[1])>>)>> \o TableParts(Tail(f))

\* C23: the fragment of a strftime field is the translation of its template
\* by the table: %Y is \d{4}, %y is \d{2}, %m %d %H %M %S are \d{1,2}, %f is
\* \d{1,6}, %b and %h are [A-Za-z]{3}, %B is [A-Za-z]+, %% is a literal %,
\* an unknown directive is .+?, a literal character is itself escaped
C23_StrftimeTable ==
    (compiled.status = "ok" /\ Len(compiled.field_specs) = 1) =>
        FragmentOf(compiled, 1) = Cat(TableParts(TemplateOfCtor))

-----------------------------------------------------------------------------
(* Specification SpecWide: integer fields on numbers around the ends of i64 *)

WidePatterns == {Str("{:d}"), Str("{:i}"), Str("{:x}"), Str("{:o}"), Str("{:b}")}
\* digit strings, the decimal numeral of the magnitude each denotes, and where
\* that magnitude lies: within 0 .. 2^63 - 1, at 2^63, or beyond 2^63
WideCases ==
    { [digits |-> Str("12"), numeral |-> Str("12"), size |-> "within"],
      [digits |-> Str("0x1f"), numeral |-> Str("31"), size |-> "within"],
      [digits |-> Str("4294967296"), numeral |-> Str("4294967296"), size |-> "within"],
      [digits |-> Str("9223372036854775807"), numeral |-> Str("9223372036854775807"),
       size |-> "within"],
      [digits |-> Str("9223372036854775808"), numeral |-> Str("9223372036854775808"),
       size |-> "at"],
      [digits |-> Str("9223372036854775809"), numeral |-> Str("9223372036854775809"),
       size |-> "beyond"],
      [digits |-> Str("18446744073709551621"), numeral |-> Str("18446744073709551621"),
       size |-> "beyond"],
      [digits |-> Str("0x7fffffffffffffff"), numeral |-> Str("9223372036854775807"),
       size |-> "within"],
      [digits |-> Str("0x8000000000000000"), numeral |-> Str("9223372036854775808"),
       size |-> "at"],
      [digits |-> Str("0x10000000000000005"), numeral |-> Str("18446744073709551621"),
       size |-> "beyond"],
      [digits |-> Str("0o17"), numeral |-> Str("15"), size |-> "within"],
      [digits |-> Str("0b101"), numeral |-> Str("5"), size |-> "within"] }
WideSigns == {<<>>, <<"+">>, <<"-">>}

CompileW == \E p \in WidePatterns : Compile(p, None)
ParseW == \E c \in WideCases, s \in WideSigns : Parse(s \o c.digits, FALSE, None, TRUE)

NextWide == CompileW \/ ParseW \/ Return

SpecWide == Init /\ [][NextWide]_vars

\* C24: a capture of sign s and magnitude m converts to s*m whenever s*m lies
\* in -2^63 .. 2^63 - 1, -2^63 included, and ends in a value-kind error
\* whenever it lies outside that range
C24_SignOverI64 ==
    call.op = "parse" =>
        \A c \in WideCases, s \in WideSigns :
            call.string = s \o c.digits =>
                IF c.size = "within" \/ (c.size = "at" /\ s = <<"-">>)
                  THEN /\ Accepted(call.outcome)
                       /\ call.outcome.fixed = <<IntoPy(I64(s = <<"-">>, c.numeral))>>
                  ELSE call.outcome = CallError("value")

-----------------------------------------------------------------------------
(* Specification SpecIdent: one field whose type is a multi-character name *)

IdentTypes ==
    { Str("foo"), Str("ab"), Str("foo_1"), Str("fo2"), Str("f_o"), Str("t_i"), Str("x1") }
\* the converter registered under the type name: pattern x+, gives the length
IdentConverter == Converter("ident", Some(PatPlain), Missing, "len")
IdentInputChars == {"x", "1", "-"}

CompileT ==
    \E w \in IdentTypes, registered \in BOOLEAN :
        Compile(Str("{:") \o w \o Str("}"),
                IF registered THEN Some(w :> IdentConverter) ELSE None)
ParseT == \E s \in Strings(IdentInputChars, MaxLen) : Parse(s, FALSE, None, TRUE)

NextIdent == CompileT \/ ParseT \/ Return

SpecIdent == Init /\ [][NextIdent]_vars

\* C25: a multi-character type name T that is no date code compiles to
\* Custom(T), T exactly as written with its digits and underscores, so that
\* the converter registered under T gives the field its pattern and converts
\* its capture
C25_CustomTypeAsWritten ==
    compiled.status = "ok" =>
        /\ compiled.field_specs[1].field_type = Custom(WrittenType)
        /\ ctor.extra_types # None =>
              /\ FragmentOf(compiled, 1) = RegexParse(IdentConverter.pattern[1])
              /\ (call.op = "parse" /\ Accepted(call.outcome)) =>
                    call.outcome.fixed = <<CallConverter(IdentConverter, call.string).v>>

-----------------------------------------------------------------------------
(* Specification SpecNested: fields whose names are paths into nested dicts *)

NestedPieces ==
    { Str("{a}"), Str("{a[b]}"), Str("{a[c]}"), Str("{a[b][c]}"), Str("{d[b]}") }
NestedInputChars == {"x", "y"}

CompileP == \E p \in Concats(NestedPieces, MaxNames) : Compile(p, None)
ParseP == \E s \in Strings(NestedInputChars, MaxLen) : Parse(s, FALSE, None, TRUE)

NextNested == CompileP \/ ParseP \/ Return

SpecNested == Init /\ [][NextNested]_vars

RECURSIVE ValueAt(_, _)
\* the string at path of the mapping m, None where the path leads nowhere
\* or to something that is no string
ValueAt(m, path) ==
    IF ~HasKey(m, path[1]) THEN None
    ELSE IF Len(path) = 1
      THEN (IF m[path[1]].t = "str" THEN Some(m[path[1]].v) ELSE None)
    ELSE IF m[path[1]].t # "dict" THEN None
    ELSE ValueAt(m[path[1]].v, Tail(path))

\* the text the field called name captured (its last occurrence)
CapturedBy(name) ==
    SubSeq(call.string, call.outcome.field_spans[name][1] + 1,
           call.outcome.field_spans[name][2])

\* C26: in a result, every named field is found at its path of the named
\* mapping (a[b][c] at a -> b -> c) with the text it captured: the
\* intermediate mappings exist, and no later field stored at another path
\* changed it; fields a[b] and a[c] leave named[a] holding both b and c
C26_NestedDestinations ==
    (call.op = "parse" /\ Accepted(call.outcome)) =>
        \A k \in 1..Len(compiled.field_names) :
            compiled.field_names[k] # None =>
                ValueAt(call.outcome.named, parse_field_path(compiled.field_names[k][1]))
                    = Some(CapturedBy(compiled.field_names[k][1]))

-----------------------------------------------------------------------------
(* Specification SpecMerge: converters given at compile time and per call *)

MergeTypes == {Str("d"), Str("s"), Str("w")}
MergePatterns == {Str("{:") \o w \o Str("}") : w \in MergeTypes}
MergeExtras ==
    {None} \cup {Some(w :> conv) : w \in MergeTypes, conv \in {LenConverter, RaiseConverter}}
MergeInputChars == {"1", "a"}

CompileX == \E p \in MergePatterns, et \in MergeExtras : Compile(p, et)
ParseX ==
    \E s \in Strings(MergeInputChars, MaxLen), et \in MergeExtras : Parse(s, FALSE, et, TRUE)

NextMerge == CompileX \/ ParseX \/ Return

SpecMerge == Init /\ [][NextMerge]_vars

\* for every type name, the converter the call passed if it passed one, and
\* otherwise the one given to the constructor
EffectiveConverters ==
    LET passed == IF call.extra_types = None THEN EmptyMap ELSE call.extra_types[1]
        kept == IF ctor.extra_types = None THEN EmptyMap ELSE ctor.extra_types[1]
    IN  [name \in DOMAIN passed \cup DOMAIN kept |->
            IF name \in DOMAIN passed THEN passed[name] ELSE kept[name]]

\* C28: every parse call extracts with, under each type name, the converter
\* passed to that call if it passes one and otherwise the one captured at
\* compile time; converters passed to earlier calls play no part
C28_ConverterPrecedence ==
    call.op = "parse" =>
        call.outcome = parse_internal(Constructed, call.string, call.case_sensitive,
                                      Some(EffectiveConverters), call.evaluate_result)

\* C28 happens: the constructor was given a raising converter for the type
\* of the field, the call passed the length converter under the same name,
\* and the result holds the length
C28_Witness ==
    /\ call.op = "parse"
    /\ ctor.extra_types = Some(WrittenType :> RaiseConverter)
    /\ call.extra_types = Some(WrittenType :> LenConverter)
    /\ call.outcome.kind = "result"
    /\ call.outcome.fixed = <<PyInteger(Len(call.string))>>


-----------------------------------------------------------------------------
(* The spans of a result, checked under Spec *)

\* the regex the call ran, its match in the input and the converters the
\* extraction loop was given
RegexRun ==
    IF call.op = "search" THEN SearchRegex(compiled, call.case_sensitive)
    ELSE RegexOfCall
CapsRun == captures(RegexRun, call.string)[1]
ConvertersRun ==
    IF call.op = "parse" THEN ConvertersOfCall
    ELSE IF call.extra_types = None THEN EmptyMap ELSE call.extra_types[1]

\* the capture of field k in the match of the call
SpanOfField(k) ==
    FieldCapture(compiled, RegexRun, CapsRun, k,
                 GroupOffsetAt(compiled, ConvertersRun, k))

\* the fields the loop found a capture for: those without a name, how many
\* of them stand before field k, and those with a name
Captured(c) == {k \in 1..Len(c.field_names) : SpanOfField(k) # None}
PositionalFields(c) == {k \in Captured(c) : c.field_names[k] = None}
PositionalRank(c, k) == Cardinality({j \in PositionalFields(c) : j < k})
NamedFieldsCaptured(c) == Captured(c) \ PositionalFields(c)
\* the last captured field that carries the original name `name`
LastOccurrence(c, name) ==
    CHOOSE k \in NamedFieldsCaptured(c) :
        /\ c.field_names[k] = Some(name)
        /\ \A j \in NamedFieldsCaptured(c) : c.field_names[j] = Some(name) => j <= k

\* C30: in every result of parse or search, span = (start, end) lies in the
\* input, 0 <= start <= end <= Len(input); every entry (s, e) of field_spans
\* lies in the span, start <= s <= e <= end; the captures of the fields
\* without a name are keyed "0", "1", "2", ... in field order without gaps;
\* and a name holds the capture of its last occurrence
C30_SpanContainment ==
    (call.op \in {"parse", "search"} /\ Accepted(call.outcome)) =>
        LET start == call.outcome.span[1]
            end == call.outcome.span[2]
            field_spans == call.outcome.field_spans
            names == {compiled.field_names[k][1] : k \in NamedFieldsCaptured(compiled)}
        IN  /\ 0 <= start /\ start <= end /\ end <= Len(call.string)
            /\ \A key \in DOMAIN field_spans :
                   /\ start <= field_spans[key][1]
                   /\ field_spans[key][1] <= field_spans[key][2]
                   /\ field_spans[key][2] <= end
            /\ DOMAIN field_spans =
                   names \cup {to_string(j) :
                                  j \in 0..(Cardinality(PositionalFields(compiled)) - 1)}
            /\ \A k \in PositionalFields(compiled) :
                   field_spans[to_string(PositionalRank(compiled, k))] = SpanOfField(k)
            /\ \A name \in names :
                   field_spans[name] = SpanOfField(LastOccurrence(compiled, name))

\* C30 happens: search found a match that ends before the input does, for two
\* fields without a name, the second keyed "1"; or a call returned
\* for a pattern that repeats a name, and the name holds the second capture
C30_Witness ==
    /\ call.op \in {"parse", "search"} /\ Accepted(call.outcome)
    /\ \/ /\ call.op = "search"
          /\ compiled.pattern = Str("{}{}")
          /\ call.string = Str(" xX")
          /\ call.outcome.span = <<0, 2>>
          /\ call.outcome.field_spans = (<<"0">> :> <<0, 1>>) @@ (<<"1">> :> <<1, 2>>)
       \/ /\ compiled.pattern = Str("{a}{a}")
          /\ call.string = Str("xx")
          /\ call.outcome.field_spans = (<<"a">> :> <<1, 2>>)

=============================================================================
